---- MODULE Spec2Model ----
(***************************************************************************)
(* Verification model of the IPC serializer (io/ipc/write/serialize.rs)    *)
(* and of the IPC reader dispatch (io/ipc/read/deserialize.rs) of arrow2.  *)
(*                                                                         *)
(* The writer functions are pure operators over a record `w` that holds    *)
(* the four outputs the Rust code mutates through `&mut` (buffers,         *)
(* arrow_data, nodes, offset), a flag `panicked` for a call aborted by     *)
(* `todo!()`, and an observation log of the node pushes and buffer writes  *)
(* in the order the code performs them.                                    *)
(*                                                                         *)
(* The second half models the parquet page decoders: the flat binary       *)
(* decoder (io/parquet/read/deserialize/binary/basic.rs, IterSpec) and the *)
(* nested reassembly (io/parquet/read/deserialize/nested_utils.rs,         *)
(* NestedSpec), each as calls of next() over a finite page source.         *)
(* DecoderSpec applies build_state and extend_from_state of the flat       *)
(* decoder call by call.                                                   *)
(***************************************************************************)
EXTENDS Integers, Sequences, FiniteSets, TLC

VARIABLES
    native_le,          \* is_native_little_endian(): fixed by the build target
    is_little_endian,   \* the endianness flag handed to write and read
    compression,        \* "None" | "LZ4" | "ZSTD"
    buffers,            \* Vec<ipc::Buffer>
    arrow_data,         \* Vec<u8>: the body
    nodes,              \* Vec<ipc::FieldNode>
    offset,             \* the running offset (i64)
    panicked,           \* a write call unwound at todo!()
    log,                \* observation: node pushes and buffer writes, in order
    columns,            \* the arrays handed to write, in call order
    phase,              \* "write" | "read"
    field_nodes,        \* VecDeque<Node> of the reader
    rbuffers,           \* VecDeque<IpcBuffer> of the reader
    reader,             \* the seekable stream the reader reads the body from
    reader_pos,         \* position of the stream after the last read
    dictionaries,       \* Dictionaries of the reader: id -> values array
    next_col,           \* index of the next column to read or skip
    last,               \* observation: the last reader operation and its pre-state
    dictionary_batches, \* observation: the dictionary batches the reader received
    debug_assertions,   \* the build profile of the page decoders: debug or release
    source,             \* observation: the pages the page source was created with
    iter,               \* the page source (DataPages): the pages not yet pulled
    chunk_size,         \* chunk_size of the page decoder
    init,               \* InitNested of the nested decoder
    items,              \* VecDeque<DecodedState>
    nested_items,       \* VecDeque<NestedState>
    returned,           \* observation: what the calls of next() returned, in order
    aborted,            \* a call of next() unwound at a panic
    page_state          \* the State of the page being decoded, call by call

vars == <<native_le, is_little_endian, compression, buffers, arrow_data, nodes,
          offset, panicked, log, columns, phase, field_nodes, rbuffers, reader,
          reader_pos, dictionaries, next_col, last, dictionary_batches, debug_assertions,
          source, iter, chunk_size, init, items, nested_items, returned, aborted,
          page_state>>

\* the state of the page decoders (io/parquet/read/deserialize)
decoder_vars == <<debug_assertions, source, iter, chunk_size, init, items, nested_items,
                  returned, aborted, page_state>>

\* the state of the IPC writer and reader (io/ipc)
ipc_vars == <<native_le, is_little_endian, compression, buffers, arrow_data, nodes,
              offset, panicked, log, columns, phase, field_nodes, rbuffers, reader,
              reader_pos, dictionaries, next_col, last, dictionary_batches>>

(***************************************************************************)
(* Bounds of the model.                                                    *)
(***************************************************************************)
MaxWrites == 2

(***************************************************************************)
(* Sequence helpers.                                                       *)
(***************************************************************************)
RECURSIVE SumSeq(_)
SumSeq(s) == IF s = <<>> THEN 0 ELSE Head(s) + SumSeq(Tail(s))

Zeros(n) == [i \in 1..n |-> 0]

Drop(s, n) == SubSeq(s, n + 1, Len(s))

Take(s, n) == SubSeq(s, 1, n)

IsPrefix(s, t) == Len(s) <= Len(t) /\ SubSeq(t, 1, Len(s)) = s

RECURSIVE Flatten(_)
Flatten(ss) == IF ss = <<>> THEN <<>> ELSE Head(ss) \o Flatten(Tail(ss))

Pow2(i) == CASE i = 0 -> 1 [] i = 1 -> 2 [] i = 2 -> 4 [] i = 3 -> 8
             [] i = 4 -> 16 [] i = 5 -> 32 [] i = 6 -> 64 [] OTHER -> 128

(***************************************************************************)
(* NativeType::to_le_bytes / to_be_bytes of a two's-complement integer of  *)
(* `width` bytes.  The values of the model fit 24 bits, so the bytes above *)
(* the third are the sign extension.                                       *)
(***************************************************************************)
ByteOf(x, i) ==
    CASE i = 0 -> x % 256
      [] i = 1 -> (x \div 256) % 256
      [] i = 2 -> (x \div 65536) % 256
      [] OTHER -> IF x < 0 THEN 255 ELSE 0

to_le_bytes(x, width) == [i \in 1..width |-> ByteOf(x, i - 1)]

to_be_bytes(x, width) == [i \in 1..width |-> ByteOf(x, width - i)]

\* bytemuck::cast_slice: the elements as they lie in memory (native order).
cast_slice(buffer, width) ==
    Flatten([i \in 1..Len(buffer) |->
        IF native_le THEN to_le_bytes(buffer[i], width) ELSE to_be_bytes(buffer[i], width)])

\* from_le_bytes / from_be_bytes: the inverse, on the modelled value range.
Magnitude(ds) ==
    ds[1] + (IF Len(ds) >= 2 THEN ds[2] * 256 ELSE 0)
          + (IF Len(ds) >= 3 THEN ds[3] * 65536 ELSE 0)

from_le_bytes(bs) ==
    IF bs[Len(bs)] >= 128
    THEN 0 - Magnitude([i \in 1..Len(bs) |-> 255 - bs[i]]) - 1
    ELSE Magnitude(bs)

Reverse(s) == [i \in 1..Len(s) |-> s[Len(s) + 1 - i]]

from_be_bytes(bs) == from_le_bytes(Reverse(bs))

(***************************************************************************)
(* Bitmap: (bytes, bit offset, bit length); bit i of a byte is its i-th    *)
(* least significant bit.                                                  *)
(***************************************************************************)
BitOf(bytes, i) == (bytes[(i \div 8) + 1] \div Pow2(i % 8)) % 2

NoBitmap == [present |-> FALSE, bytes |-> <<>>, offset |-> 0, length |-> 0]

\* Bitmap::get_bit
get_bit(bm, i) == BitOf(bm.bytes, bm.offset + i) = 1

\* Bitmap::iter: the logical bits
bitmap_iter(bm) == [i \in 1..bm.length |-> BitOf(bm.bytes, bm.offset + i - 1)]

\* Bitmap::as_slice: the bytes that hold the bits, the bit offset inside the
\* first of them, and the length.
as_slice(bm) ==
    LET start == bm.offset \div 8
        len   == ((bm.offset % 8) + bm.length + 7) \div 8
    IN  [slice |-> SubSeq(bm.bytes, start + 1, start + len),
         slice_offset |-> bm.offset % 8,
         length |-> bm.length]

\* Bitmap::from_trusted_len_iter: a fresh tightly packed bitmap at offset 0.
PackByte(bits, k) ==
    SumSeq([j \in 1..8 |-> IF 8 * k + j <= Len(bits) THEN bits[8 * k + j] * Pow2(j - 1) ELSE 0])

from_trusted_len_iter(bits) ==
    [present |-> TRUE,
     bytes |-> [k \in 1..((Len(bits) + 7) \div 8) |-> PackByte(bits, k - 1)],
     offset |-> 0,
     length |-> Len(bits)]

\* Bitmap::slice
bitmap_slice(bm, off, length) ==
    IF bm.present THEN [bm EXCEPT !.offset = @ + off, !.length = length] ELSE bm

\* Bitmap::unset_bits
unset_bits(bm) == Cardinality({i \in 1..bm.length : BitOf(bm.bytes, bm.offset + i - 1) = 0})

(***************************************************************************)
(* DataType (the part the codecs dispatch on) and Array.                   *)
(***************************************************************************)
DataType(kind, width, fields, dense, id) ==
    [kind |-> kind, width |-> width, fields |-> fields, dense |-> dense, id |-> id]

NullT == DataType("Null", 0, <<>>, FALSE, 0)
BooleanT == DataType("Boolean", 0, <<>>, FALSE, 0)
Int8T == DataType("Primitive", 1, <<>>, FALSE, 0)
Int16T == DataType("Primitive", 2, <<>>, FALSE, 0)
Int32T == DataType("Primitive", 4, <<>>, FALSE, 0)
Int64T == DataType("Primitive", 8, <<>>, FALSE, 0)
BinaryT == DataType("Binary", 4, <<>>, FALSE, 0)
LargeBinaryT == DataType("LargeBinary", 8, <<>>, FALSE, 0)
Utf8T == DataType("Utf8", 4, <<>>, FALSE, 0)
LargeUtf8T == DataType("LargeUtf8", 8, <<>>, FALSE, 0)
FixedSizeBinaryT(size) == DataType("FixedSizeBinary", size, <<>>, FALSE, 0)
ListT(inner) == DataType("List", 4, <<inner>>, FALSE, 0)
LargeListT(inner) == DataType("LargeList", 8, <<inner>>, FALSE, 0)
FixedSizeListT(inner, size) == DataType("FixedSizeList", size, <<inner>>, FALSE, 0)
StructT(fields) == DataType("Struct", 0, fields, FALSE, 0)
UnionT(fields, dense) == DataType("Union", 0, fields, dense, 0)
MapT(entries) == DataType("Map", 4, <<entries>>, FALSE, 0)
DictionaryT(keyWidth, values, id) == DataType("Dictionary", keyWidth, <<values>>, FALSE, id)

\* One record shape for every array:
\*   values   primitive values | value bytes | dictionary keys
\*   bits     the values bitmap of a BooleanArray
\*   offsets  offsets of Binary/Utf8/List/Map, or of a dense Union
\*   types    type ids of a Union
\*   fields   child arrays (List/Map/FixedSizeList: one; Struct/Union: many;
\*            Dictionary: the dictionary values)
ArrayOf(dt, length, validity, values, bits, offsets, types, fields) ==
    [data_type |-> dt, length |-> length, validity |-> validity, values |-> values,
     bits |-> bits, offsets |-> offsets, types |-> types, fields |-> fields]

\* Array::len
len(array) == array.length

\* Array::null_count: the length of a NullArray, 0 for a UnionArray, else the
\* unset bits of the validity.
null_count(array) ==
    CASE array.data_type.kind = "Null" -> array.length
      [] array.data_type.kind = "Union" -> 0
      [] OTHER -> IF array.validity.present THEN unset_bits(array.validity) ELSE 0

\* Array::slice(offset, length)
RECURSIVE slice(_, _, _)
slice(array, off, length) ==
    LET k == array.data_type.kind
        v == bitmap_slice(array.validity, off, length)
    IN  CASE k = "Null" -> [array EXCEPT !.length = length]
          [] k = "Boolean" ->
               [array EXCEPT !.length = length, !.validity = v,
                             !.bits = bitmap_slice(@, off, length)]
          [] k \in {"Primitive", "Dictionary"} ->
               [array EXCEPT !.length = length, !.validity = v,
                             !.values = SubSeq(@, off + 1, off + length)]
          [] k \in {"Binary", "LargeBinary", "Utf8", "LargeUtf8", "List", "LargeList", "Map"} ->
               [array EXCEPT !.length = length, !.validity = v,
                             !.offsets = SubSeq(@, off + 1, off + length + 1)]
          [] k = "FixedSizeBinary" ->
               [array EXCEPT !.length = length, !.validity = v,
                             !.values = SubSeq(@, off * array.data_type.width + 1,
                                               (off + length) * array.data_type.width)]
          [] k = "FixedSizeList" ->
               [array EXCEPT !.length = length, !.validity = v,
                             !.fields = <<slice(@[1], off * array.data_type.width,
                                                length * array.data_type.width)>>]
          [] k = "Struct" ->
               [array EXCEPT !.length = length, !.validity = v,
                             !.fields = [i \in 1..Len(@) |-> slice(@[i], off, length)]]
          [] OTHER -> \* Union: sparse children sliced alike, dense children kept
               [array EXCEPT !.length = length,
                             !.types = SubSeq(@, off + 1, off + length),
                             !.offsets = IF array.data_type.dense
                                         THEN SubSeq(@, off + 1, off + length) ELSE @,
                             !.fields = IF array.data_type.dense THEN @
                                        ELSE [i \in 1..Len(@) |-> slice(@[i], off, length)]]

(***************************************************************************)
(* The block codecs behind compression::compress_lz4 / compress_zstd and   *)
(* their inverses.  The codecs are external; what the model keeps of them  *)
(* is that the output is a function of the input, is not the input, has a  *)
(* length that does not follow the input's, and can be inverted.  Both are *)
(* run-length coders behind a magic byte; ZSTD adds a one-byte checksum.   *)
(***************************************************************************)
RECURSIVE RunLength(_)
RunLength(bs) ==
    IF Len(bs) <= 1 THEN Len(bs)
    ELSE IF bs[2] = bs[1] THEN 1 + RunLength(Tail(bs)) ELSE 1

RECURSIVE RunEncode(_)
RunEncode(bs) ==
    IF bs = <<>> THEN <<>>
    ELSE <<RunLength(bs), Head(bs)>> \o RunEncode(Drop(bs, RunLength(bs)))

RECURSIVE RunDecode(_)
RunDecode(cs) ==
    IF Len(cs) < 2 THEN <<>>
    ELSE [i \in 1..cs[1] |-> cs[2]] \o RunDecode(Drop(cs, 2))

compress_lz4(bytes) == <<4>> \o RunEncode(bytes)

compress_zstd(bytes) == <<40>> \o RunEncode(bytes) \o <<SumSeq(bytes) % 256>>

decompress_lz4(bytes) == RunDecode(Tail(bytes))

decompress_zstd(bytes) == RunDecode(SubSeq(bytes, 2, Len(bytes) - 1))

\* match compression { Compression::LZ4 => compress_lz4, Compression::ZSTD => compress_zstd }
compress(comp, bytes) == IF comp = "LZ4" THEN compress_lz4(bytes) ELSE compress_zstd(bytes)

decompress(comp, bytes) == IF comp = "LZ4" THEN decompress_lz4(bytes) ELSE decompress_zstd(bytes)

(***************************************************************************)
(* The writer.  `w` is the record of what the Rust functions mutate.       *)
(***************************************************************************)
EmptyArray == ArrayOf(NullT, 0, NoBitmap, <<>>, NoBitmap, <<>>, <<>>, <<>>)

\* Observation of `nodes.push(..)` in write: the array written, the index of
\* the node, and the body length and running offset at that moment.
NodeEvent(path, array, idx, start, off) ==
    [ev |-> "node", fn |-> "write", path |-> path, array |-> array, raw |-> <<>>,
     elems |-> <<>>, width |-> 0, idx |-> idx, start |-> start, mid |-> start, off |-> off]

\* Observation of one `buffers.push(..)`: the function that made it, the bytes
\* it was given before compression (raw), the typed elements if any, the index
\* of the record in the buffer table, the body length when the function was
\* entered (start) and when it had appended its bytes but not yet the padding
\* (mid), and the running offset when it was entered.
BufferEvent(fn, path, raw, elems, width, idx, start, mid, off) ==
    [ev |-> "buffer", fn |-> fn, path |-> path, array |-> EmptyArray, raw |-> raw,
     elems |-> elems, width |-> width, idx |-> idx, start |-> start, mid |-> mid, off |-> off]

\* common::pad_to_8: the bytes missing to the next multiple of 8.
pad_to_8(length) == ((length + 7) \div 8) * 8 - length

pad_buffer_to_8(buffer, length) == buffer \o Zeros(pad_to_8(length))

\* finish_buffer with the running offset advanced by the unpadded length
finish_buffer_unpadded_advance(data, start, off) ==
    LET buffer_len == Len(data) - start
        padded     == pad_buffer_to_8(data, Len(data) - start)
    IN  [arrow_data |-> padded,
         offset |-> off + buffer_len,
         buffer |-> [offset |-> off, length |-> buffer_len]]

\* finish_buffer with the padding counted in Buffer.length
finish_buffer_padded_length(data, start, off) ==
    LET padded     == pad_buffer_to_8(data, Len(data) - start)
        total_len  == Len(padded) - start
    IN  [arrow_data |-> padded,
         offset |-> off + total_len,
         buffer |-> [offset |-> off, length |-> total_len]]

\* finish_buffer with the running offset advanced by one word more than the
\* body grew
finish_buffer_advance_past_body(data, start, off) ==
    LET buffer_len == Len(data) - start
        padded     == pad_buffer_to_8(data, Len(data) - start)
        total_len  == Len(padded) - start
    IN  [arrow_data |-> padded,
         offset |-> off + total_len + 8,
         buffer |-> [offset |-> off, length |-> buffer_len]]

finish_buffer(data, start, off) ==
    LET buffer_len == Len(data) - start
        padded     == pad_buffer_to_8(data, Len(data) - start)
        total_len  == Len(padded) - start
    IN  [arrow_data |-> padded,
         offset |-> off + total_len,
         buffer |-> [offset |-> off, length |-> buffer_len]]

\* `buffers.push(finish_buffer(arrow_data, start, offset))`, observed.
push_finished(w, data, start, fn, path, raw, elems, width) ==
    LET fb == finish_buffer(data, start, w.offset)
    IN  [w EXCEPT !.arrow_data = fb.arrow_data,
                  !.offset = fb.offset,
                  !.buffers = Append(@, fb.buffer),
                  !.log = Append(@, BufferEvent(fn, path, raw, elems, width,
                                                Len(w.buffers) + 1, start, Len(data),
                                                w.offset))]

\* write_bytes with the compressed length as the prefix
write_bytes_compressed_prefix(bytes, w, comp, path) ==
    IF w.panicked THEN w
    ELSE LET start == Len(w.arrow_data)
             data  == IF comp # "None"
                      THEN w.arrow_data \o to_le_bytes(Len(compress(comp, bytes)), 8)
                                        \o compress(comp, bytes)
                      ELSE w.arrow_data \o bytes
         IN  push_finished(w, data, start, "write_bytes", path, bytes, <<>>, 1)

write_bytes(bytes, w, comp, path) ==
    IF w.panicked THEN w
    ELSE LET start == Len(w.arrow_data)
             data  == IF comp # "None"
                      THEN w.arrow_data \o to_le_bytes(Len(bytes), 8) \o compress(comp, bytes)
                      ELSE w.arrow_data \o bytes
         IN  push_finished(w, data, start, "write_bytes", path, bytes, <<>>, 1)

\* write_bitmap with an absent bitmap written as an empty byte buffer
write_bitmap_absent_as_empty(bitmap, length, w, comp, path) ==
    IF w.panicked THEN w
    ELSE IF bitmap.present
    THEN IF bitmap.length # length
         THEN [w EXCEPT !.panicked = TRUE]
         ELSE LET s == as_slice(bitmap)
              IN  IF s.slice_offset # 0
                  THEN write_bytes(as_slice(from_trusted_len_iter(bitmap_iter(bitmap))).slice,
                                   w, comp, path)
                  ELSE write_bytes(s.slice, w, comp, path)
    ELSE write_bytes(<<>>, w, comp, path)

\* write_bitmap that writes the underlying bytes whatever the bit offset
write_bitmap_never_repacked(bitmap, length, w, comp, path) ==
    IF w.panicked THEN w
    ELSE IF bitmap.present
    THEN IF bitmap.length # length
         THEN [w EXCEPT !.panicked = TRUE]
         ELSE write_bytes(as_slice(bitmap).slice, w, comp, path)
    ELSE [w EXCEPT !.buffers = Append(@, [offset |-> w.offset, length |-> 0]),
                   !.log = Append(@, BufferEvent("write_bitmap", path, <<>>, <<>>, 1,
                                                 Len(w.buffers) + 1, Len(w.arrow_data),
                                                 Len(w.arrow_data), w.offset))]

write_bitmap(bitmap, length, w, comp, path) ==
    IF w.panicked THEN w
    ELSE IF bitmap.present
    THEN IF bitmap.length # length
         THEN [w EXCEPT !.panicked = TRUE]      \* assert_eq!(bitmap.len(), length)
         ELSE LET s == as_slice(bitmap)
              IN  IF s.slice_offset # 0
                  THEN write_bytes(as_slice(from_trusted_len_iter(bitmap_iter(bitmap))).slice,
                                   w, comp, path)
                  ELSE write_bytes(s.slice, w, comp, path)
    ELSE [w EXCEPT !.buffers = Append(@, [offset |-> w.offset, length |-> 0]),
                   !.log = Append(@, BufferEvent("write_bitmap", path, <<>>, <<>>, 1,
                                                 Len(w.buffers) + 1, Len(w.arrow_data),
                                                 Len(w.arrow_data), w.offset))]

\* The four inner writers return the extended body, the bytes handed to the
\* codec or copied (raw), and whether the call hit todo!().
_write_buffer_from_iter(buffer, width, data, le) ==
    LET bytes == Flatten([i \in 1..Len(buffer) |->
                     IF le THEN to_le_bytes(buffer[i], width) ELSE to_be_bytes(buffer[i], width)])
    IN  [arrow_data |-> data \o bytes, raw |-> bytes, panicked |-> FALSE]

_write_compressed_buffer_from_iter(buffer, width, data, le, comp) ==
    LET swapped == Flatten([i \in 1..Len(buffer) |->
                     IF le THEN to_le_bytes(buffer[i], width) ELSE to_be_bytes(buffer[i], width)])
    IN  [arrow_data |-> data \o to_le_bytes(Len(swapped), 8) \o compress(comp, swapped),
         raw |-> swapped, panicked |-> FALSE]

\* _write_buffer copying the native bytes whatever the endianness flag
_write_buffer_always_native(buffer, width, data, le) ==
    [arrow_data |-> data \o cast_slice(buffer, width),
     raw |-> cast_slice(buffer, width), panicked |-> FALSE]

_write_buffer(buffer, width, data, le) ==
    IF le = native_le
    THEN [arrow_data |-> data \o cast_slice(buffer, width),
          raw |-> cast_slice(buffer, width), panicked |-> FALSE]
    ELSE _write_buffer_from_iter(buffer, width, data, le)

_write_compressed_buffer(buffer, width, data, le, comp) ==
    IF le = native_le
    THEN LET bytes == cast_slice(buffer, width)
         IN  [arrow_data |-> data \o to_le_bytes(Len(bytes), 8) \o compress(comp, bytes),
              raw |-> bytes, panicked |-> FALSE]
    ELSE [arrow_data |-> data, raw |-> <<>>, panicked |-> TRUE]     \* todo!()

write_buffer(buffer, width, w, path, le, comp) ==
    IF w.panicked THEN w
    ELSE LET start == Len(w.arrow_data)
             r == IF comp # "None"
                  THEN _write_compressed_buffer(buffer, width, w.arrow_data, le, comp)
                  ELSE _write_buffer(buffer, width, w.arrow_data, le)
         IN  IF r.panicked THEN [w EXCEPT !.panicked = TRUE]
             ELSE push_finished(w, r.arrow_data, start, "write_buffer", path, r.raw,
                                buffer, width)

write_buffer_from_iter(buffer, width, w, path, le, comp) ==
    IF w.panicked THEN w
    ELSE LET start == Len(w.arrow_data)
             r == IF comp # "None"
                  THEN _write_compressed_buffer_from_iter(buffer, width, w.arrow_data, le, comp)
                  ELSE _write_buffer_from_iter(buffer, width, w.arrow_data, le)
         IN  push_finished(w, r.arrow_data, start, "write_buffer_from_iter", path, r.raw,
                           buffer, width)

(***************************************************************************)
(* The per-type writers and the dispatch of write.  `path` is the place of *)
(* the array in the tree being written: <<column>> for the array handed to *)
(* the top-level call, extended by the child index at every recursion.     *)
(***************************************************************************)
RECURSIVE write(_, _, _, _, _)

\* _write_primitive with the values written before the validity
_write_primitive_values_first(array, w, path, le, comp) ==
    write_bitmap(array.validity, len(array),
                 write_buffer(array.values, array.data_type.width, w, path, le, comp),
                 comp, path)

_write_primitive(array, w, path, le, comp) ==
    write_buffer(array.values, array.data_type.width,
                 write_bitmap(array.validity, len(array), w, comp, path),
                 path, le, comp)

write_primitive(array, w, path, le, comp) == _write_primitive(array, w, path, le, comp)

write_boolean(array, w, path, le, comp) ==
    write_bitmap(array.bits, len(array),
                 write_bitmap(array.validity, len(array), w, comp, path),
                 comp, path)

\* O::default() is 0; `width` is the size of the offset type O.
write_generic_binary(validity, offsets, values, width, w, path, le, comp) ==
    LET w1    == write_bitmap(validity, Len(offsets) - 1, w, comp, path)
        first == offsets[1]
        last_ == offsets[Len(offsets)]
        w2    == IF first = 0
                 THEN write_buffer(offsets, width, w1, path, le, comp)
                 ELSE write_buffer_from_iter([i \in 1..Len(offsets) |-> offsets[i] - first],
                                             width, w1, path, le, comp)
    IN  write_bytes(SubSeq(values, first + 1, last_), w2, comp, path)

write_binary(array, width, w, path, le, comp) ==
    write_generic_binary(array.validity, array.offsets, array.values,
                         width, w, path, le, comp)

write_utf8(array, width, w, path, le, comp) ==
    write_generic_binary(array.validity, array.offsets, array.values,
                         width, w, path, le, comp)

write_fixed_size_binary(array, w, path, le, comp) ==
    write_bytes(array.values,
                write_bitmap(array.validity, len(array), w, comp, path),
                comp, path)

\* write_list with the child handed over whole when the first offset is 0
write_list_whole_child_at_zero(array, width, w, path, le, comp) ==
    LET offsets == array.offsets
        w1    == write_bitmap(array.validity, Len(offsets) - 1, w, comp, path)
        first == offsets[1]
        last_ == offsets[Len(offsets)]
    IN  IF first = 0
        THEN write(array.fields[1], write_buffer(offsets, width, w1, path, le, comp),
                   path \o <<1>>, le, comp)
        ELSE write(slice(array.fields[1], first, last_ - first),
                   write_buffer_from_iter([i \in 1..Len(offsets) |-> offsets[i] - first],
                                          width, w1, path, le, comp),
                   path \o <<1>>, le, comp)

write_list(array, width, w, path, le, comp) ==
    LET offsets == array.offsets
        w1    == write_bitmap(array.validity, Len(offsets) - 1, w, comp, path)
        first == offsets[1]
        last_ == offsets[Len(offsets)]
        w2    == IF first = 0
                 THEN write_buffer(offsets, width, w1, path, le, comp)
                 ELSE write_buffer_from_iter([i \in 1..Len(offsets) |-> offsets[i] - first],
                                             width, w1, path, le, comp)
    IN  write(slice(array.fields[1], first, last_ - first), w2, path \o <<1>>, le, comp)

\* array.values().iter().for_each(|array| write(..)), from the i-th child on
RECURSIVE write_each(_, _, _, _, _, _)
write_each(fields, i, w, path, le, comp) ==
    IF i > Len(fields) THEN w
    ELSE write_each(fields, i + 1, write(fields[i], w, path \o <<i>>, le, comp), path, le, comp)

\* write_struct with the validity written after the fields
write_struct_validity_last(array, w, path, le, comp) ==
    write_bitmap(array.validity, len(array),
                 write_each(array.fields, 1, w, path, le, comp),
                 comp, path)

write_struct(array, w, path, le, comp) ==
    write_each(array.fields, 1,
               write_bitmap(array.validity, len(array), w, comp, path),
               path, le, comp)

\* write_union with the offsets written for sparse unions too
write_union_offsets_always(array, w, path, le, comp) ==
    LET w1 == write_buffer(array.types, 1, w, path, le, comp)
        w2 == write_buffer(array.offsets, 4, w1, path, le, comp)
    IN  write_each(array.fields, 1, w2, path, le, comp)

\* types are i8, offsets (dense only) are i32
write_union(array, w, path, le, comp) ==
    LET w1 == write_buffer(array.types, 1, w, path, le, comp)
        w2 == IF array.data_type.dense
              THEN write_buffer(array.offsets, 4, w1, path, le, comp)
              ELSE w1
    IN  write_each(array.fields, 1, w2, path, le, comp)

\* Map offsets are i32
write_map(array, w, path, le, comp) ==
    LET offsets == array.offsets
        w1    == write_bitmap(array.validity, Len(offsets) - 1, w, comp, path)
        first == offsets[1]
        last_ == offsets[Len(offsets)]
        w2    == IF first = 0
                 THEN write_buffer(offsets, 4, w1, path, le, comp)
                 ELSE write_buffer_from_iter([i \in 1..Len(offsets) |-> offsets[i] - first],
                                             4, w1, path, le, comp)
    IN  write(slice(array.fields[1], first, last_ - first), w2, path \o <<1>>, le, comp)

write_fixed_size_list(array, w, path, le, comp) ==
    write(array.fields[1],
          write_bitmap(array.validity, len(array), w, comp, path),
          path \o <<1>>, le, comp)

\* The keys of a DictionaryArray are its `values` and `validity` here, its
\* dictionary values are fields[1].  The usize the Rust function returns (the
\* number of rows written) is dropped by `write`.
\* _write_dictionary that writes the keys whatever write_keys says
_write_dictionary_keys_always(array, w, path, le, comp, write_keys) ==
    _write_primitive(array, w, path, le, comp)

_write_dictionary(array, w, path, le, comp, write_keys) ==
    IF write_keys
    THEN _write_primitive(array, w, path, le, comp)
    ELSE write(array.fields[1], w, path \o <<1>>, le, comp)

write_dictionary(array, w, path, le, comp, write_keys) ==
    _write_dictionary(array, w, path, le, comp, write_keys)

write(array, w, path, le, comp) ==
    IF w.panicked THEN w
    ELSE LET w0 == [w EXCEPT !.nodes = Append(@, [length |-> len(array),
                                                   null_count |-> null_count(array)]),
                             !.log = Append(@, NodeEvent(path, array, Len(w.nodes) + 1,
                                                         Len(w.arrow_data), w.offset))]
             k  == array.data_type.kind
         IN  CASE k = "Null" -> w0
               [] k = "Boolean" -> write_boolean(array, w0, path, le, comp)
               [] k = "Primitive" -> write_primitive(array, w0, path, le, comp)
               [] k = "Binary" -> write_binary(array, 4, w0, path, le, comp)
               [] k = "LargeBinary" -> write_binary(array, 8, w0, path, le, comp)
               [] k = "FixedSizeBinary" -> write_fixed_size_binary(array, w0, path, le, comp)
               [] k = "Utf8" -> write_utf8(array, 4, w0, path, le, comp)
               [] k = "LargeUtf8" -> write_utf8(array, 8, w0, path, le, comp)
               [] k = "List" -> write_list(array, 4, w0, path, le, comp)
               [] k = "LargeList" -> write_list(array, 8, w0, path, le, comp)
               [] k = "FixedSizeList" -> write_fixed_size_list(array, w0, path, le, comp)
               [] k = "Struct" -> write_struct(array, w0, path, le, comp)
               [] k = "Dictionary" -> write_dictionary(array, w0, path, le, comp, TRUE)
               [] k = "Union" -> write_union(array, w0, path, le, comp)
               [] k = "Map" -> write_map(array, w0, path, le, comp)

(***************************************************************************)
(* The arrays the model hands to write.                                    *)
(***************************************************************************)
Valid(bits) == from_trusted_len_iter(bits)

Prim(dt, values, validity) ==
    ArrayOf(dt, Len(values), validity, values, NoBitmap, <<>>, <<>>, <<>>)

Bool(bits, validity) ==
    ArrayOf(BooleanT, Len(bits), validity, <<>>, Valid(bits), <<>>, <<>>, <<>>)

Bin(dt, offsets, values, validity) ==
    ArrayOf(dt, Len(offsets) - 1, validity, values, NoBitmap, offsets, <<>>, <<>>)

List(dt, offsets, child, validity) ==
    ArrayOf(dt, Len(offsets) - 1, validity, <<>>, NoBitmap, offsets, <<>>, <<child>>)

Struct(fields, length, validity) ==
    ArrayOf(StructT([i \in 1..Len(fields) |-> fields[i].data_type]), length, validity,
            <<>>, NoBitmap, <<>>, <<>>, fields)

Union(fields, types, offsets, dense) ==
    ArrayOf(UnionT([i \in 1..Len(fields) |-> fields[i].data_type], dense), Len(types),
            NoBitmap, <<>>, NoBitmap, offsets, types, fields)

\* ".....abcdefg." as bytes
Chars == <<46, 46, 46, 46, 46, 97, 98, 99, 100, 101, 102, 103, 46>>

I32a == Prim(Int32T, <<1, -2, 3>>, Valid(<<1, 0, 1>>))
I32b == Prim(Int32T, <<7, 8, 9, 300>>, NoBitmap)
I8a == Prim(Int8T, <<5, -1, 0, 0, 0, 0, 0, 0, 1>>, NoBitmap)
I64a == Prim(Int64T, <<-70000, 2>>, Valid(<<1, 1>>))
BoolA == slice(Bool(<<1, 0, 1, 1>>, Valid(<<1, 1, 0, 1>>)), 1, 3)
FsbA == ArrayOf(FixedSizeBinaryT(2), 3, Valid(<<0, 1, 1>>), <<9, 8, 7, 6, 5, 4>>, NoBitmap,
                <<>>, <<>>, <<>>)
KeyVals == Bin(Utf8T, <<0, 1, 2>>, <<120, 121>>, NoBitmap)
DictA == ArrayOf(DictionaryT(1, Utf8T, 7), 3, Valid(<<1, 1, 0>>), <<0, 1, 1>>, NoBitmap,
                 <<>>, <<>>, <<KeyVals>>)
SparseA == Union(<<I32a, Bool(<<0, 1, 1>>, NoBitmap)>>, <<0, 1, 0>>, <<>>, FALSE)
BinA == Bin(BinaryT, <<0, 1, 3, 4, 4>>, <<1, 2, 3, 4>>, Valid(<<1, 1, 0, 1>>))
LargeBinA == slice(Bin(LargeBinaryT, <<0, 1, 3, 4>>, <<1, 2, 3, 4>>, NoBitmap), 1, 2)
EntriesA == Struct(<<Prim(Int32T, <<1, 2, 3>>, NoBitmap), Prim(Int16T, <<10, 20, 30>>, NoBitmap)>>,
                   3, NoBitmap)
MapA == List(MapT(EntriesA.data_type), <<0, 1, 2>>, EntriesA, NoBitmap)
FslA == ArrayOf(FixedSizeListT(Int16T, 2), 2, Valid(<<1, 0>>), <<>>, NoBitmap, <<>>, <<>>,
                <<Prim(Int16T, <<1, 2, 3, 4>>, NoBitmap)>>)

\* LargeUtf8 whose offsets start at 5
LargeUtf8A == Bin(LargeUtf8T, <<5, 7, 7, 10>>, Chars, NoBitmap)

\* Utf8 sliced to rows 8..10: offsets start at 0 and end before the end of the
\* values, the validity starts at bit 8
Utf8A ==
    slice(Bin(Utf8T, <<0, 0, 0, 0, 0, 0, 0, 0, 0, 2, 2, 5>>, <<97, 98, 99, 100, 101, 102>>,
              Valid(<<1, 1, 1, 1, 1, 1, 1, 1, 1, 0, 1>>)), 8, 3)

\* LargeList sliced to rows 1..2: offsets start at 1
LargeListA == slice(List(LargeListT(Int32T), <<0, 1, 3, 4>>, I32b, Valid(<<1, 1, 0>>)), 1, 2)

\* List of Binary whose offsets start at 0 and end before the child's end
ListA == List(ListT(BinaryT), <<0, 2, 3>>, BinA, NoBitmap)

Arrays ==
    { \* Int32Array [1, null, 3]
      I32a,
      \* a struct of flat children: the validity of the Boolean child lies at bit offset 1
      Struct(<<Prim(Int8T, <<5, -1, 0>>, NoBitmap),
               ArrayOf(NullT, 3, NoBitmap, <<>>, NoBitmap, <<>>, <<>>, <<>>),
               BoolA, FsbA, DictA, SparseA>>, 3, Valid(<<0, 1, 1>>)),
      \* a dense Union over the variable-size and nested types
      Union(<<I64a, LargeBinA, FslA, MapA, I8a, LargeUtf8A, Utf8A, LargeListA, ListA>>,
            <<4, 0, 2, 1, 3, 5, 6, 7, 8>>, <<8, 1, 0, 0, 1, 2, 0, 1, 1>>, TRUE),
      \* Map sliced to row 1: offsets start at 1
      slice(List(MapT(EntriesA.data_type), <<0, 1, 3>>, EntriesA, Valid(<<1, 1>>)), 1, 1) }

(***************************************************************************)
(* The reader.  `q` holds what read and skip mutate: the two queues and    *)
(* the position of the stream; `cx` holds what they only read: the stream, *)
(* the dictionaries, block_offset, the endianness flag, the compression.   *)
(* The per-type readers (read/array/*.rs, read/read_basic.rs) follow the   *)
(* read contracts of the specification.                                    *)
(***************************************************************************)
Ok(array, q) == [ok |-> TRUE, err |-> "", array |-> array, q |-> q]

Err(e, q) == [ok |-> FALSE, err |-> e, array |-> EmptyArray, q |-> q]

\* What a per-type reader holds while it runs: the queues, the node it
\* popped, and the validity, buffers and children it has read so far.
Frame(ok, err, q, node) ==
    [ok |-> ok, err |-> err, q |-> q, node |-> node, validity |-> NoBitmap,
     bufs |-> <<>>, arrays |-> <<>>]

Fail(f, e) == [f EXCEPT !.ok = FALSE, !.err = e]

Push(f, x) == [f EXCEPT !.bufs = Append(@, x)]

Top(f) == f.bufs[Len(f.bufs)]

SetTop(f, x) == [f EXCEPT !.bufs[Len(f.bufs)] = x]

\* field_nodes.pop_front().ok_or_else(..)
pop_node(q) ==
    IF q.field_nodes = <<>>
    THEN Frame(FALSE, "OutOfSpec", q, [length |-> 0, null_count |-> 0])
    ELSE Frame(TRUE, "", [q EXCEPT !.field_nodes = Tail(@)], Head(q.field_nodes))

\* reader.seek(SeekFrom::Start(block_offset + buf.offset)); read buf.length bytes
fetch(buf, cx) ==
    SubSeq(cx.reader, cx.block_offset + buf.offset + 1,
           cx.block_offset + buf.offset + buf.length)

advance(f, buf, cx) ==
    [f EXCEPT !.q.buffers = Tail(@), !.q.pos = cx.block_offset + buf.offset + buf.length]

\* the codec output must decode to the length the 8-byte prefix announces
decompressed(f, prefix, out) ==
    IF Len(out) # from_le_bytes(prefix) THEN Fail(f, "CorruptStream") ELSE Push(f, out)

decode_bytes(f, buf, cx) ==
    IF cx.block_offset + buf.offset + buf.length > Len(cx.reader) THEN Fail(f, "Io")
    ELSE IF cx.compression = "None" THEN Push(f, fetch(buf, cx))
    ELSE IF buf.length < 8 THEN Fail(f, "CorruptStream")
    ELSE decompressed(f, Take(fetch(buf, cx), 8),
                      decompress(cx.compression, Drop(fetch(buf, cx), 8)))

\* Pop one buffer record, seek to block_offset + offset, read `length` bytes,
\* strip the uncompressed-length prefix and decompress when compressed.
read_bytes(f, cx) ==
    IF ~f.ok THEN f
    ELSE IF f.q.buffers = <<>> THEN Fail(f, "OutOfSpec")
    ELSE decode_bytes(advance(f, Head(f.q.buffers), cx), Head(f.q.buffers), cx)

as_elements(f, width, cx) ==
    IF ~f.ok THEN f
    ELSE IF Len(Top(f)) % width # 0 THEN Fail(f, "OutOfSpec")
    ELSE SetTop(f, [i \in 1..(Len(Top(f)) \div width) |->
                      IF cx.is_little_endian
                      THEN from_le_bytes(SubSeq(Top(f), (i - 1) * width + 1, i * width))
                      ELSE from_be_bytes(SubSeq(Top(f), (i - 1) * width + 1, i * width))])

\* read_buffer::<T>: the bytes as elements of `width` bytes in the declared order
read_buffer(f, width, cx) == as_elements(read_bytes(f, cx), width, cx)

as_bitmap(f) ==
    IF ~f.ok THEN f
    ELSE IF Len(Top(f)) < (f.node.length + 7) \div 8 THEN Fail(f, "OutOfSpec")
    ELSE SetTop(f, [present |-> TRUE, bytes |-> Take(Top(f), (f.node.length + 7) \div 8),
                    offset |-> 0, length |-> f.node.length])

\* read_bitmap: ceil(length / 8) bytes wrapped with the logical length
read_bitmap(f, cx) == as_bitmap(read_bytes(f, cx))

set_validity(f) ==
    IF ~f.ok THEN f
    ELSE [f EXCEPT !.validity = Top(f), !.bufs = SubSeq(@, 1, Len(@) - 1)]

\* read_validity: a null bitmap (record of length 0) is all-valid when the node
\* counts no null, else the stream is corrupt.
read_validity(f, cx) ==
    IF ~f.ok THEN f
    ELSE IF f.q.buffers = <<>> THEN Fail(f, "OutOfSpec")
    ELSE IF Head(f.q.buffers).length = 0
    THEN IF f.node.null_count = 0
         THEN [f EXCEPT !.q.buffers = Tail(@)]
         ELSE Fail([f EXCEPT !.q.buffers = Tail(@)], "CorruptStream")
    ELSE set_validity(read_bitmap(f, cx))

\* Array::try_new / from_data of the array a per-type reader builds
into_array(f, dt, shape) ==
    IF ~f.ok THEN Err(f.err, f.q)
    ELSE Ok(CASE shape = "null" ->
                   ArrayOf(dt, f.node.length, NoBitmap, <<>>, NoBitmap, <<>>, <<>>, <<>>)
              [] shape = "boolean" ->
                   ArrayOf(dt, f.node.length, f.validity, <<>>, f.bufs[1], <<>>, <<>>, <<>>)
              [] shape = "primitive" ->
                   ArrayOf(dt, f.node.length, f.validity, f.bufs[1], NoBitmap, <<>>, <<>>, <<>>)
              [] shape = "binary" ->
                   ArrayOf(dt, f.node.length, f.validity, f.bufs[2], NoBitmap, f.bufs[1],
                           <<>>, <<>>)
              [] shape = "list" ->
                   ArrayOf(dt, f.node.length, f.validity, <<>>, NoBitmap, f.bufs[1], <<>>,
                           f.arrays)
              [] shape = "struct" ->
                   ArrayOf(dt, f.node.length, f.validity, <<>>, NoBitmap, <<>>, <<>>, f.arrays)
              [] shape = "union" ->
                   ArrayOf(dt, f.node.length, NoBitmap, <<>>, NoBitmap,
                           IF Len(f.bufs) > 1 THEN f.bufs[2] ELSE <<>>, f.bufs[1], f.arrays),
            f.q)

RECURSIVE read(_, _, _)

read_null(q, dt) == into_array(pop_node(q), dt, "null")

read_boolean(q, dt, cx) ==
    into_array(read_bitmap(read_validity(pop_node(q), cx), cx), dt, "boolean")

read_primitive(q, dt, width, cx) ==
    into_array(read_buffer(read_validity(pop_node(q), cx), width, cx), dt, "primitive")

read_binary(q, dt, width, cx) ==
    into_array(read_bytes(read_buffer(read_validity(pop_node(q), cx), width, cx), cx),
               dt, "binary")

read_utf8(q, dt, width, cx) == read_binary(q, dt, width, cx)

read_fixed_size_binary(q, dt, cx) ==
    into_array(read_bytes(read_validity(pop_node(q), cx), cx), dt, "primitive")

add_child(f, c) ==
    IF c.ok THEN [f EXCEPT !.q = c.q, !.arrays = Append(@, c.array)]
    ELSE [f EXCEPT !.ok = FALSE, !.err = c.err, !.q = c.q]

\* read(field_nodes, field, .., buffers, ..) of a child, on the same queues
read_child(f, dt, cx) == IF ~f.ok THEN f ELSE add_child(f, read(f.q, dt, cx))

read_list(q, dt, width, cx) ==
    into_array(read_child(read_buffer(read_validity(pop_node(q), cx), width, cx),
                          dt.fields[1], cx),
               dt, "list")

read_map(q, dt, cx) == read_list(q, dt, 4, cx)

read_fixed_size_list(q, dt, cx) ==
    into_array(read_child(read_validity(pop_node(q), cx), dt.fields[1], cx), dt, "struct")

\* fields.iter().map(|field| read(..)).collect::<Result<Vec<_>>>(), from the i-th on
RECURSIVE read_each(_, _, _, _)
read_each(f, fields, i, cx) ==
    IF i > Len(fields) \/ ~f.ok THEN f
    ELSE read_each(read_child(f, fields[i], cx), fields, i + 1, cx)

read_struct(q, dt, cx) ==
    into_array(read_each(read_validity(pop_node(q), cx), dt.fields, 1, cx), dt, "struct")

union_offsets(f, dt, cx) == IF dt.dense THEN read_buffer(f, 4, cx) ELSE f

\* Union: type ids (i8), offsets (i32) when dense, no validity, then the children.
read_union(q, dt, cx) ==
    into_array(read_each(union_offsets(read_buffer(pop_node(q), 1, cx), dt, cx),
                         dt.fields, 1, cx),
               dt, "union")

with_values(r, values) ==
    IF ~r.ok THEN r ELSE Ok([r.array EXCEPT !.fields = <<values>>], r.q)

\* Dictionary: the values registered under the id, then the keys decoded locally.
read_dictionary(q, dt, width, cx) ==
    IF dt.id \notin DOMAIN cx.dictionaries THEN Err("MissingDictionary", q)
    ELSE with_values(read_primitive(q, dt, width, cx), cx.dictionaries[dt.id])

\* read with Map dispatched to the reader of FixedSizeList
read_map_as_fixed_size_list(q, dt, cx) ==
    LET k == dt.kind
    IN  CASE k = "Null" -> read_null(q, dt)
          [] k = "Boolean" -> read_boolean(q, dt, cx)
          [] k = "Primitive" -> read_primitive(q, dt, dt.width, cx)
          [] k = "Binary" -> read_binary(q, dt, 4, cx)
          [] k = "LargeBinary" -> read_binary(q, dt, 8, cx)
          [] k = "FixedSizeBinary" -> read_fixed_size_binary(q, dt, cx)
          [] k = "Utf8" -> read_utf8(q, dt, 4, cx)
          [] k = "LargeUtf8" -> read_utf8(q, dt, 8, cx)
          [] k = "List" -> read_list(q, dt, 4, cx)
          [] k = "LargeList" -> read_list(q, dt, 8, cx)
          [] k = "FixedSizeList" -> read_fixed_size_list(q, dt, cx)
          [] k = "Struct" -> read_struct(q, dt, cx)
          [] k = "Dictionary" -> read_dictionary(q, dt, dt.width, cx)
          [] k = "Union" -> read_union(q, dt, cx)
          [] k = "Map" -> read_fixed_size_list(q, dt, cx)

\* read with Dictionary dispatched to the reader of its keys alone
read_dictionary_as_primitive(q, dt, cx) ==
    LET k == dt.kind
    IN  CASE k = "Null" -> read_null(q, dt)
          [] k = "Boolean" -> read_boolean(q, dt, cx)
          [] k = "Primitive" -> read_primitive(q, dt, dt.width, cx)
          [] k = "Binary" -> read_binary(q, dt, 4, cx)
          [] k = "LargeBinary" -> read_binary(q, dt, 8, cx)
          [] k = "FixedSizeBinary" -> read_fixed_size_binary(q, dt, cx)
          [] k = "Utf8" -> read_utf8(q, dt, 4, cx)
          [] k = "LargeUtf8" -> read_utf8(q, dt, 8, cx)
          [] k = "List" -> read_list(q, dt, 4, cx)
          [] k = "LargeList" -> read_list(q, dt, 8, cx)
          [] k = "FixedSizeList" -> read_fixed_size_list(q, dt, cx)
          [] k = "Struct" -> read_struct(q, dt, cx)
          [] k = "Dictionary" -> read_primitive(q, dt, dt.width, cx)
          [] k = "Union" -> read_union(q, dt, cx)
          [] k = "Map" -> read_map(q, dt, cx)

read(q, dt, cx) ==
    LET k == dt.kind
    IN  CASE k = "Null" -> read_null(q, dt)
          [] k = "Boolean" -> read_boolean(q, dt, cx)
          [] k = "Primitive" -> read_primitive(q, dt, dt.width, cx)
          [] k = "Binary" -> read_binary(q, dt, 4, cx)
          [] k = "LargeBinary" -> read_binary(q, dt, 8, cx)
          [] k = "FixedSizeBinary" -> read_fixed_size_binary(q, dt, cx)
          [] k = "Utf8" -> read_utf8(q, dt, 4, cx)
          [] k = "LargeUtf8" -> read_utf8(q, dt, 8, cx)
          [] k = "List" -> read_list(q, dt, 4, cx)
          [] k = "LargeList" -> read_list(q, dt, 8, cx)
          [] k = "FixedSizeList" -> read_fixed_size_list(q, dt, cx)
          [] k = "Struct" -> read_struct(q, dt, cx)
          [] k = "Dictionary" -> read_dictionary(q, dt, dt.width, cx)
          [] k = "Union" -> read_union(q, dt, cx)
          [] k = "Map" -> read_map(q, dt, cx)

(***************************************************************************)
(* skip: the parallel dispatch that only pops the queues.                  *)
(***************************************************************************)
\* field_nodes.pop_front().ok_or_else(..)
skip_node(q) ==
    IF ~q.ok THEN q
    ELSE IF q.field_nodes = <<>> THEN [q EXCEPT !.ok = FALSE, !.err = "OutOfSpec"]
    ELSE [q EXCEPT !.field_nodes = Tail(@)]

\* buffers.pop_front().ok_or_else(..)
skip_buffer(q) ==
    IF ~q.ok THEN q
    ELSE IF q.buffers = <<>> THEN [q EXCEPT !.ok = FALSE, !.err = "OutOfSpec"]
    ELSE [q EXCEPT !.buffers = Tail(@)]

RECURSIVE skip(_, _)

skip_null(q) == skip_node(q)

skip_boolean(q) == skip_buffer(skip_buffer(skip_node(q)))

skip_primitive(q) == skip_buffer(skip_buffer(skip_node(q)))

skip_binary(q) == skip_buffer(skip_buffer(skip_buffer(skip_node(q))))

skip_utf8(q) == skip_buffer(skip_buffer(skip_buffer(skip_node(q))))

skip_fixed_size_binary(q) == skip_buffer(skip_buffer(skip_node(q)))

skip_list(q, dt) == skip(skip_buffer(skip_buffer(skip_node(q))), dt.fields[1])

skip_fixed_size_list(q, dt) == skip(skip_buffer(skip_node(q)), dt.fields[1])

RECURSIVE skip_each(_, _, _)
skip_each(fields, i, q) ==
    IF i > Len(fields) \/ ~q.ok THEN q
    ELSE skip_each(fields, i + 1, skip(q, fields[i]))

skip_struct(q, dt) == skip_each(dt.fields, 1, skip_buffer(skip_node(q)))

skip_dictionary(q) == skip_buffer(skip_buffer(skip_node(q)))

skip_union(q, dt) ==
    skip_each(dt.fields, 1,
              IF dt.dense THEN skip_buffer(skip_buffer(skip_node(q)))
              ELSE skip_buffer(skip_node(q)))

skip_map(q, dt) == skip(skip_buffer(skip_buffer(skip_node(q))), dt.fields[1])

\* skip with Dictionary dispatched to skip_utf8
skip_dictionary_as_utf8(q, dt) ==
    LET k == dt.kind
    IN  IF ~q.ok THEN q
        ELSE CASE k = "Null" -> skip_null(q)
               [] k = "Boolean" -> skip_boolean(q)
               [] k = "Primitive" -> skip_primitive(q)
               [] k \in {"LargeBinary", "Binary"} -> skip_binary(q)
               [] k \in {"LargeUtf8", "Utf8"} -> skip_utf8(q)
               [] k = "FixedSizeBinary" -> skip_fixed_size_binary(q)
               [] k = "List" -> skip_list(q, dt)
               [] k = "LargeList" -> skip_list(q, dt)
               [] k = "FixedSizeList" -> skip_fixed_size_list(q, dt)
               [] k = "Struct" -> skip_struct(q, dt)
               [] k = "Dictionary" -> skip_utf8(q)
               [] k = "Union" -> skip_union(q, dt)
               [] k = "Map" -> skip_map(q, dt)

skip(q, dt) ==
    LET k == dt.kind
    IN  IF ~q.ok THEN q
        ELSE CASE k = "Null" -> skip_null(q)
               [] k = "Boolean" -> skip_boolean(q)
               [] k = "Primitive" -> skip_primitive(q)
               [] k \in {"LargeBinary", "Binary"} -> skip_binary(q)
               [] k \in {"LargeUtf8", "Utf8"} -> skip_utf8(q)
               [] k = "FixedSizeBinary" -> skip_fixed_size_binary(q)
               [] k = "List" -> skip_list(q, dt)
               [] k = "LargeList" -> skip_list(q, dt)
               [] k = "FixedSizeList" -> skip_fixed_size_list(q, dt)
               [] k = "Struct" -> skip_struct(q, dt)
               [] k = "Dictionary" -> skip_dictionary(q)
               [] k = "Union" -> skip_union(q, dt)
               [] k = "Map" -> skip_map(q, dt)

(***************************************************************************)
(* The state machine: up to MaxWrites calls of write into one record body, *)
(* then the record is queued for the reader, which reads or skips its      *)
(* columns in order.                                                        *)
(***************************************************************************)
\* the position of the record body in the stream handed to read
block_offset == 16

NoLast ==
    [op |-> "none", col |-> 0, ok |-> TRUE, err |-> "", array |-> EmptyArray,
     pre_field_nodes |-> <<>>, pre_buffers |-> <<>>, pre_pos |-> 0]

\* no page decoder has been constructed
NoDecoder ==
    /\ debug_assertions = FALSE
    /\ source = <<>>
    /\ iter = <<>>
    /\ chunk_size = 0
    /\ init = <<>>
    /\ items = <<>>
    /\ nested_items = <<>>
    /\ returned = <<>>
    /\ aborted = FALSE
    /\ page_state = <<>>

Init ==
    /\ native_le \in BOOLEAN
    /\ is_little_endian \in BOOLEAN
    /\ compression \in {"None", "LZ4", "ZSTD"}
    /\ buffers = <<>>
    /\ arrow_data = <<>>
    /\ nodes = <<>>
    /\ offset = 0
    /\ panicked = FALSE
    /\ log = <<>>
    /\ columns = <<>>
    /\ phase = "write"
    /\ field_nodes = <<>>
    /\ rbuffers = <<>>
    /\ reader = <<>>
    /\ reader_pos = 0
    /\ dictionaries = [id \in {7} |-> KeyVals]
    /\ next_col = 1
    /\ last = NoLast
    /\ dictionary_batches = <<>>
    /\ NoDecoder

WriteDone(array, w) ==
    /\ buffers' = w.buffers
    /\ arrow_data' = w.arrow_data
    /\ nodes' = w.nodes
    /\ offset' = w.offset
    /\ log' = w.log
    /\ panicked' = w.panicked
    /\ columns' = Append(columns, array)
    /\ UNCHANGED <<native_le, is_little_endian, compression, phase, field_nodes, rbuffers,
                   reader, reader_pos, dictionaries, next_col, last>>
    /\ UNCHANGED <<dictionary_batches, decoder_vars>>

\* One call of write(array, &mut buffers, &mut arrow_data, &mut nodes, &mut offset, ..)
Write(array) ==
    /\ phase = "write"
    /\ ~panicked
    /\ Len(columns) < MaxWrites
    /\ WriteDone(array,
                 write(array,
                       [buffers |-> buffers, arrow_data |-> arrow_data, nodes |-> nodes,
                        offset |-> offset, log |-> log, panicked |-> FALSE],
                       <<Len(columns) + 1>>, is_little_endian, compression))

\* The record is framed and handed to the reader: the nodes and buffer records
\* become the two queues, the body lies at block_offset of the stream.
Queue ==
    /\ phase = "write"
    /\ ~panicked
    /\ columns # <<>>
    /\ phase' = "read"
    /\ field_nodes' = nodes
    /\ rbuffers' = buffers
    /\ reader' = [i \in 1..block_offset |-> 255] \o arrow_data
    /\ UNCHANGED <<native_le, is_little_endian, compression, buffers, arrow_data, nodes,
                   offset, panicked, log, columns, reader_pos, dictionaries, next_col, last>>
    /\ UNCHANGED <<dictionary_batches, decoder_vars>>

Cx ==
    [reader |-> reader, dictionaries |-> dictionaries, block_offset |-> block_offset,
     is_little_endian |-> is_little_endian, compression |-> compression]

ReadDone(r) ==
    /\ field_nodes' = r.q.field_nodes
    /\ rbuffers' = r.q.buffers
    /\ reader_pos' = r.q.pos
    /\ phase' = IF r.ok THEN "read" ELSE "failed"
    /\ last' = [op |-> "read", col |-> next_col, ok |-> r.ok, err |-> r.err,
                array |-> r.array, pre_field_nodes |-> field_nodes,
                pre_buffers |-> rbuffers, pre_pos |-> reader_pos]
    /\ next_col' = next_col + 1
    /\ UNCHANGED <<native_le, is_little_endian, compression, buffers, arrow_data, nodes,
                   offset, panicked, log, columns, reader, dictionaries>>
    /\ UNCHANGED <<dictionary_batches, decoder_vars>>

\* read(field_nodes, field, .., buffers, reader, dictionaries, block_offset, ..) of
\* the next column
Read ==
    /\ phase = "read"
    /\ next_col <= Len(columns)
    /\ ReadDone(read([field_nodes |-> field_nodes, buffers |-> rbuffers, pos |-> reader_pos],
                     columns[next_col].data_type, Cx))

SkipDone(r) ==
    /\ field_nodes' = r.field_nodes
    /\ rbuffers' = r.buffers
    /\ phase' = IF r.ok THEN "read" ELSE "failed"
    /\ last' = [op |-> "skip", col |-> next_col, ok |-> r.ok, err |-> r.err,
                array |-> EmptyArray, pre_field_nodes |-> field_nodes,
                pre_buffers |-> rbuffers, pre_pos |-> reader_pos]
    /\ next_col' = next_col + 1
    /\ UNCHANGED <<native_le, is_little_endian, compression, buffers, arrow_data, nodes,
                   offset, panicked, log, columns, reader, reader_pos, dictionaries>>
    /\ UNCHANGED <<dictionary_batches, decoder_vars>>

\* skip(field_nodes, data_type, buffers) of the next column
Skip ==
    /\ phase = "read"
    /\ next_col <= Len(columns)
    /\ SkipDone(skip([field_nodes |-> field_nodes, buffers |-> rbuffers, ok |-> TRUE,
                      err |-> ""],
                     columns[next_col].data_type))

Next ==
    \/ \E array \in Arrays : Write(array)
    \/ Queue
    \/ Read
    \/ Skip

Spec == Init /\ [][Next]_vars

(***************************************************************************)
(* Reading the observation log.                                            *)
(***************************************************************************)
Events == 1..Len(log)

BufferEvents == {k \in Events : log[k].ev = "buffer"}

NodeEvents == {k \in Events : log[k].ev = "node"}

\* The body length and the running offset right after event k: what the next
\* event found, or what the state holds if k is the last event.
EndOf(k) == IF k = Len(log) THEN Len(arrow_data) ELSE log[k + 1].start

OffsetAfter(k) == IF k = Len(log) THEN offset ELSE log[k + 1].off

\* The buffer writes that went through finish_buffer.
FinishedEvents == {k \in BufferEvents : log[k].fn # "write_bitmap"}

(***************************************************************************)
(* C1: from an empty body and a running offset of 0, after every buffer    *)
(* write of any sequence of write calls the body length is a multiple of   *)
(* 8, and every record of the buffer table has an offset that is a         *)
(* multiple of 8.                                                          *)
(***************************************************************************)
C1_Aligned ==
    /\ Len(arrow_data) % 8 = 0
    /\ offset % 8 = 0
    /\ \A k \in BufferEvents : EndOf(k) % 8 = 0
    /\ \A i \in 1..Len(buffers) : buffers[i].offset % 8 = 0

\* two calls completed, compressed, with payloads that end off the boundary
\* and an absent validity among them
C1_Witness ==
    /\ Len(columns) = 2
    /\ ~panicked
    /\ compression # "None"
    /\ \E k \in FinishedEvents : log[k].mid % 8 # 0 /\ log[k].path[1] = 2
    /\ \E k \in BufferEvents : log[k].fn = "write_bitmap"

(***************************************************************************)
(* C3: every buffer write that appends bytes pushes Buffer{offset: the     *)
(* running offset before the write, length: the bytes appended before the  *)
(* padding}, then appends only zero bytes, fewer than 8, up to a multiple  *)
(* of 8 since the write started, and advances the running offset by that   *)
(* padded size.                                                            *)
(***************************************************************************)
C3_FinishBuffer ==
    \A k \in FinishedEvents :
        LET e == log[k] IN
        /\ buffers[e.idx] = [offset |-> e.off, length |-> e.mid - e.start]
        /\ \A i \in (e.mid + 1)..EndOf(k) : arrow_data[i] = 0
        /\ EndOf(k) >= e.mid
        /\ EndOf(k) - e.mid < 8
        /\ (EndOf(k) - e.start) % 8 = 0
        /\ OffsetAfter(k) = e.off + (EndOf(k) - e.start)

\* a write whose payload needed padding, after an earlier one that did too
C3_Witness ==
    \E k \in FinishedEvents : \E j \in FinishedEvents :
        /\ j < k
        /\ EndOf(j) > log[j].mid
        /\ log[k].mid > log[k].start
        /\ EndOf(k) - log[k].mid = 7
        /\ log[k].off > 0

(***************************************************************************)
(* C9: writing an absent validity pushes Buffer{offset: the running        *)
(* offset, length: 0} and leaves the body and the running offset as they   *)
(* were.  The validity is the first buffer of every array but a Null or a  *)
(* Union one, so the write is the event that follows the node's.           *)
(***************************************************************************)
HasValidity(array) == array.data_type.kind \notin {"Null", "Union"}

AbsentValidityEvents ==
    {k \in BufferEvents : /\ log[k - 1].ev = "node"
                          /\ HasValidity(log[k - 1].array)
                          /\ ~log[k - 1].array.validity.present}

C9_AbsentValidity ==
    /\ \A k \in NodeEvents :
          (HasValidity(log[k].array) /\ ~log[k].array.validity.present)
              => (k + 1) \in AbsentValidityEvents
    /\ \A k \in AbsentValidityEvents :
          /\ buffers[log[k].idx] = [offset |-> log[k].off, length |-> 0]
          /\ log[k].off = OffsetAfter(k - 1)
          /\ EndOf(k) = EndOf(k - 1)
          /\ OffsetAfter(k) = log[k].off

\* an absent validity written under compression after the body has grown, and
\* followed by another buffer
C9_Witness ==
    \E k \in AbsentValidityEvents :
        /\ compression # "None"
        /\ log[k].off > 0
        /\ (k + 1) \in FinishedEvents

(***************************************************************************)
(* C10: with a compression codec configured, the bytes appended for every  *)
(* buffer that is not an absent validity are the length of the             *)
(* uncompressed bytes as a little-endian i64 followed by the codec output  *)
(* for those bytes, and Buffer.length is 8 plus the length of the codec    *)
(* output.  The uncompressed bytes of a typed buffer are its elements in   *)
(* the order of the endianness flag.                                       *)
(***************************************************************************)
ElementBytes(elems, width, le) ==
    Flatten([i \in 1..Len(elems) |->
                IF le THEN to_le_bytes(elems[i], width) ELSE to_be_bytes(elems[i], width)])

C10_CompressedFraming ==
    compression # "None" =>
        \A k \in FinishedEvents :
            LET e == log[k]
                n == buffers[e.idx].length
            IN  /\ n = 8 + Len(compress(compression, e.raw))
                /\ SubSeq(arrow_data, e.start + 1, e.start + n)
                     = to_le_bytes(Len(e.raw), 8) \o compress(compression, e.raw)
                /\ e.fn # "write_bytes"
                     => e.raw = ElementBytes(e.elems, e.width, is_little_endian)

\* a record written under compression that holds a bitmap, raw value bytes,
\* typed values and normalized offsets
C10_Witness ==
    /\ compression # "None"
    /\ ~panicked
    /\ \E k \in FinishedEvents : log[k].fn = "write_buffer_from_iter"
    /\ \E k \in FinishedEvents : log[k].fn = "write_buffer" /\ Len(log[k].elems) > 1
    /\ \E k \in FinishedEvents : log[k].fn = "write_bytes" /\ Len(log[k].raw) > 1

(***************************************************************************)
(* C4: the node of an array is appended before any buffer of that array,   *)
(* the buffers of an array before any node or buffer of its children, and  *)
(* children depth-first and left to right: the places of the events are in *)
(* pre-order, nodes[k] is the node of the k-th array of the pre-order      *)
(* traversal of the type trees written, and the buffer records lie in the  *)
(* table in the order of their bytes in the body.                          *)
(***************************************************************************)
\* p comes before q in pre-order: p is a prefix of q, or p branches off to the left
PathBefore(p, q) ==
    \E n \in 0..Len(p) :
        /\ n <= Len(q)
        /\ Take(p, n) = Take(q, n)
        /\ \/ n = Len(p)
           \/ n < Len(q) /\ p[n + 1] < q[n + 1]

\* the children of the type tree that are written inline
ChildTypes(dt) ==
    CASE dt.kind \in {"List", "LargeList", "Map", "FixedSizeList"} -> <<dt.fields[1]>>
      [] dt.kind \in {"Struct", "Union"} -> dt.fields
      [] OTHER -> <<>>

RECURSIVE PreOrder(_, _)
PreOrder(dt, path) ==
    <<[path |-> path, data_type |-> dt]>>
        \o Flatten([i \in 1..Len(ChildTypes(dt)) |-> PreOrder(ChildTypes(dt)[i], path \o <<i>>)])

ExpectedNodes == Flatten([c \in 1..Len(columns) |-> PreOrder(columns[c].data_type, <<c>>)])

NodeSeq == SelectSeq(log, LAMBDA e : e.ev = "node")

BufferSeq == SelectSeq(log, LAMBDA e : e.ev = "buffer")

C4_PreOrder ==
    LET ns == NodeSeq
        bs == BufferSeq
        en == ExpectedNodes
    IN  /\ \A k \in 1..(Len(log) - 1) : PathBefore(log[k].path, log[k + 1].path)
        /\ \A k \in BufferEvents : k > 1 /\ log[k - 1].path = log[k].path
        /\ \A k \in NodeEvents : k > 1 => log[k - 1].path # log[k].path
        /\ Len(ns) = Len(nodes)
        /\ Len(ns) <= Len(en)
        /\ ~panicked => Len(ns) = Len(en)
        /\ \A k \in 1..Len(ns) :
              /\ ns[k].idx = k
              /\ nodes[k].length = ns[k].array.length
              /\ ns[k].path = en[k].path
              /\ ns[k].array.data_type = en[k].data_type
        /\ Len(bs) = Len(buffers)
        /\ \A k \in 1..Len(bs) : bs[k].idx = k
        /\ \A k \in 1..(Len(bs) - 1) :
              /\ bs[k].start + buffers[k].length <= bs[k + 1].start
              /\ buffers[k].offset + buffers[k].length <= buffers[k + 1].offset

\* two columns written, the second one nested three deep with buffers of its
\* own at every level
C4_Witness ==
    /\ Len(columns) = 2
    /\ ~panicked
    /\ \E k \in BufferEvents : Len(log[k].path) = 3 /\ log[k].path[1] = 2
    /\ \E j, k \in BufferEvents :
          /\ log[j].path = <<2>> /\ log[k].path = <<2, 3>>
          /\ buffers[log[j].idx].length > 0

(***************************************************************************)
(* C5: one call of write appends one FieldNode {length, null_count} for    *)
(* the array and then the buffers of the array's type: Null none; Boolean  *)
(* validity, values bitmap; Primitive validity, values; Binary and Utf8    *)
(* validity, offsets, value bytes; FixedSizeBinary validity, value bytes;  *)
(* List, LargeList and Map validity, offsets, child; FixedSizeList         *)
(* validity, child; Struct validity, every field; Union type ids, offsets  *)
(* when dense, every child; Dictionary validity and keys, and no child.    *)
(* A call that stops leaves a prefix of this.                              *)
(***************************************************************************)
Roles(dt) ==
    CASE dt.kind = "Null" -> <<>>
      [] dt.kind = "Boolean" -> <<"validity", "bitmap">>
      [] dt.kind \in {"Primitive", "Dictionary"} -> <<"validity", "values">>
      [] dt.kind \in {"Binary", "LargeBinary", "Utf8", "LargeUtf8"} ->
           <<"validity", "offsets", "bytes">>
      [] dt.kind = "FixedSizeBinary" -> <<"validity", "fixed">>
      [] dt.kind \in {"List", "LargeList", "Map"} -> <<"validity", "offsets">>
      [] dt.kind \in {"FixedSizeList", "Struct"} -> <<"validity">>
      [] dt.kind = "Union" -> IF dt.dense THEN <<"types", "union_offsets">> ELSE <<"types">>

\* the bytes hold the bits of the bitmap from bit 0 on
HoldsBits(bytes, bm) ==
    /\ Len(bytes) = (bm.length + 7) \div 8
    /\ \A i \in 0..(bm.length - 1) : BitOf(bytes, i) = BitOf(bm.bytes, bm.offset + i)

Typed(e) == e.fn \in {"write_buffer", "write_buffer_from_iter"}

OffsetWidth(dt) == IF dt.kind \in {"LargeBinary", "LargeUtf8", "LargeList"} THEN 8 ELSE 4

Plays(e, role, array) ==
    CASE role = "validity" ->
           IF array.validity.present
           THEN e.fn = "write_bytes" /\ HoldsBits(e.raw, array.validity)
           ELSE buffers[e.idx].length = 0 /\ ~Typed(e) /\ e.raw = <<>>
      [] role = "bitmap" -> e.fn = "write_bytes" /\ HoldsBits(e.raw, array.bits)
      [] role = "values" ->
           Typed(e) /\ e.elems = array.values /\ e.width = array.data_type.width
      [] role = "offsets" ->
           /\ Typed(e) /\ e.width = OffsetWidth(array.data_type)
           /\ Len(e.elems) = array.length + 1
      [] role = "bytes" ->
           /\ e.fn = "write_bytes"
           /\ Len(e.raw) = array.offsets[array.length + 1] - array.offsets[1]
      [] role = "fixed" -> e.fn = "write_bytes" /\ e.raw = array.values
      [] role = "types" -> Typed(e) /\ e.elems = array.types /\ e.width = 1
      [] role = "union_offsets" -> Typed(e) /\ e.elems = array.offsets /\ e.width = 4

OwnBuffers(k) == SelectSeq(log, LAMBDA e : e.ev = "buffer" /\ e.path = log[k].path)

ChildNodes(k) ==
    {j \in NodeEvents : /\ Len(log[j].path) = Len(log[k].path) + 1
                        /\ Take(log[j].path, Len(log[k].path)) = log[k].path}

Nulls(array) ==
    CASE array.data_type.kind = "Null" -> array.length
      [] array.data_type.kind = "Union" -> 0
      [] OTHER -> IF array.validity.present
                  THEN Cardinality({i \in 0..(array.length - 1) :
                                       BitOf(array.validity.bytes, array.validity.offset + i) = 0})
                  ELSE 0

\* the call that wrote the array of node event k ran to its end
Completed(k) == ~panicked \/ log[k].path[1] < Len(columns)

C5_BufferTable ==
    \A k \in NodeEvents :
        LET array == log[k].array
            roles == Roles(array.data_type)
            own   == OwnBuffers(k)
            kids  == ChildTypes(array.data_type)
        IN  /\ nodes[log[k].idx] = [length |-> array.length, null_count |-> Nulls(array)]
            /\ Len(own) <= Len(roles)
            /\ \A i \in 1..Len(own) : Plays(own[i], roles[i], array)
            /\ {log[j].path : j \in ChildNodes(k)}
                  \subseteq {log[k].path \o <<i>> : i \in 1..Len(kids)}
            /\ \A j \in ChildNodes(k) :
                  /\ log[j].array.data_type = kids[log[j].path[Len(log[j].path)]]
                  /\ Len(own) = Len(roles)
            /\ Completed(k) => /\ Len(own) = Len(roles)
                               /\ Cardinality(ChildNodes(k)) = Len(kids)

KindsWritten == {log[k].array.data_type.kind : k \in {j \in NodeEvents : Completed(j)}}

\* a dense and a sparse union, a dictionary, a struct, a map, a fixed-size
\* list and flat types have been written
C5_Witness ==
    /\ {"Null", "Boolean", "Primitive", "FixedSizeBinary", "Dictionary", "Union", "Struct",
        "LargeBinary", "FixedSizeList", "Map"} \subseteq KindsWritten
    /\ \E j, k \in NodeEvents :
          /\ log[j].array.data_type.kind = "Union" /\ log[j].array.data_type.dense
          /\ log[k].array.data_type.kind = "Union" /\ ~log[k].array.data_type.dense
          /\ Len(log[k].array.offsets) = 0

(***************************************************************************)
(* What an array says, row by row, whatever its offset into its buffers:   *)
(* a null row says nothing, a valid row its value.                         *)
(***************************************************************************)
Row(array, i, v) ==
    IF array.validity.present
          /\ BitOf(array.validity.bytes, array.validity.offset + i - 1) = 0
    THEN [valid |-> FALSE, v |-> <<>>]
    ELSE [valid |-> TRUE, v |-> <<v>>]

RECURSIVE Logical(_)
Logical(array) ==
    LET k == array.data_type.kind
        w == array.data_type.width
    IN  [i \in 1..array.length |->
          CASE k = "Null" -> [valid |-> FALSE, v |-> <<>>]
            [] k = "Boolean" -> Row(array, i, BitOf(array.bits.bytes, array.bits.offset + i - 1))
            [] k = "Primitive" -> Row(array, i, array.values[i])
            [] k \in {"Binary", "LargeBinary", "Utf8", "LargeUtf8"} ->
                 Row(array, i, SubSeq(array.values, array.offsets[i] + 1, array.offsets[i + 1]))
            [] k = "FixedSizeBinary" ->
                 Row(array, i, SubSeq(array.values, (i - 1) * w + 1, i * w))
            [] k \in {"List", "LargeList", "Map"} ->
                 Row(array, i, SubSeq(Logical(array.fields[1]),
                                      array.offsets[i] + 1, array.offsets[i + 1]))
            [] k = "FixedSizeList" ->
                 Row(array, i, SubSeq(Logical(array.fields[1]), (i - 1) * w + 1, i * w))
            [] k = "Struct" ->
                 Row(array, i, [j \in 1..Len(array.fields) |-> Logical(array.fields[j])[i]])
            [] k = "Dictionary" ->
                 Row(array, i, Logical(array.fields[1])[array.values[i] + 1])
            [] k = "Union" ->
                 [valid |-> TRUE,
                  v |-> <<array.types[i],
                          Logical(array.fields[array.types[i] + 1])
                              [IF array.data_type.dense THEN array.offsets[i] + 1 ELSE i]>>]]

SameArray(a, b) ==
    /\ a.data_type = b.data_type
    /\ a.length = b.length
    /\ Nulls(a) = Nulls(b)
    /\ Logical(a) = Logical(b)

(***************************************************************************)
(* C8: for Binary, Utf8, List, LargeList and Map arrays whose first offset *)
(* is f and last offset is l, the offsets written are offsets[i] - f, and  *)
(* what is written below them is the range [f, l): the value bytes         *)
(* values[f..l], or the child sliced to offset f and length l - f, also    *)
(* when f = 0 and l is smaller than the length of the child.               *)
(***************************************************************************)
HasOffsets(array) ==
    array.data_type.kind \in {"Binary", "LargeBinary", "Utf8", "LargeUtf8",
                              "List", "LargeList", "Map"}

First(array) == array.offsets[1]

Last(array) == array.offsets[Len(array.offsets)]

C8_OffsetsNormalized ==
    \A k \in NodeEvents :
        HasOffsets(log[k].array) =>
            LET array == log[k].array
                own   == OwnBuffers(k)
            IN  /\ Len(own) >= 2 =>
                      /\ own[2].elems = [i \in 1..Len(array.offsets) |->
                                            array.offsets[i] - First(array)]
                      /\ own[2].elems[1] = 0
                      /\ First(array) = 0 => own[2].elems = array.offsets
                /\ Len(own) >= 3 =>
                      own[3].raw = SubSeq(array.values, First(array) + 1, Last(array))
                /\ \A j \in ChildNodes(k) :
                      /\ log[j].array.length = Last(array) - First(array)
                      /\ Logical(log[j].array)
                           = SubSeq(Logical(array.fields[1]), First(array) + 1, Last(array))

\* in one record: a list whose offsets start at 0 and end before the end of
\* its child, and a binary array whose offsets start above 0
C8_Witness ==
    /\ ~panicked
    /\ \E k \in NodeEvents :
          /\ log[k].array.data_type.kind = "List"
          /\ First(log[k].array) = 0
          /\ Last(log[k].array) < log[k].array.fields[1].length
          /\ ChildNodes(k) # {}
    /\ \E k \in NodeEvents :
          /\ log[k].array.data_type.kind = "LargeUtf8"
          /\ First(log[k].array) > 0
          /\ Len(OwnBuffers(k)) = 3

(***************************************************************************)
(* C2: for every array of a type handled by write, with any endianness     *)
(* flag and any compression, write produces nodes, buffer records and a    *)
(* body from which read, under the same flag and compression and with the  *)
(* dictionaries registered, returns an array of equal data type, length,   *)
(* values, validity and null count.                                        *)
(***************************************************************************)
C2_RoundTrip ==
    /\ ~panicked
    /\ last.op = "read" => last.ok /\ SameArray(last.array, columns[last.col])

\* what holds of the records that write did produce
C2_ReadBack ==
    last.op = "read" => last.ok /\ SameArray(last.array, columns[last.col])

\* a sliced column read back from a compressed record, after another column
C2_Witness ==
    /\ last.op = "read" /\ last.ok /\ last.col = 2
    /\ compression # "None"
    /\ columns[2].data_type.kind = "Map"
    /\ First(columns[2]) > 0

(***************************************************************************)
(* C6: with the nodes and buffer records of several columns queued one     *)
(* after another, read of the column at the front removes from the front   *)
(* of both queues the entries write appended for that column, those of its *)
(* children included, and leaves the entries of the other columns as they  *)
(* were.                                                                   *)
(***************************************************************************)
\* nodes and buffer records appended by the write calls of columns 1..c
NodesUpTo(c) == Cardinality({k \in NodeEvents : log[k].path[1] <= c})

BuffersUpTo(c) == Cardinality({k \in BufferEvents : log[k].path[1] <= c})

C6_ReadConsumesColumn ==
    last.op = "read" =>
        /\ last.ok
        /\ last.pre_field_nodes = Drop(nodes, NodesUpTo(last.col - 1))
        /\ last.pre_buffers = Drop(buffers, BuffersUpTo(last.col - 1))
        /\ field_nodes = Drop(nodes, NodesUpTo(last.col))
        /\ rbuffers = Drop(buffers, BuffersUpTo(last.col))

\* the first of two columns has been read, it is nested, and the entries of
\* the second column are all that is left
C6_Witness ==
    /\ last.op = "read" /\ last.col = 1 /\ Len(columns) = 2
    /\ NodesUpTo(1) > 2
    /\ Len(field_nodes) > 1
    /\ Len(rbuffers) > 2

(***************************************************************************)
(* C7: skip of a field removes from the front of field_nodes and buffers   *)
(* as many entries as read of the same field consumes, one node for every  *)
(* array of the type tree and the buffers of the table of each type, does  *)
(* not move the stream, and leaves the rest of both queues as it was.      *)
(***************************************************************************)
BufferCount(dt) == SumSeq([i \in 1..Len(PreOrder(dt, <<>>)) |->
                              Len(Roles(PreOrder(dt, <<>>)[i].data_type))])

C7_SkipLikeRead ==
    last.op = "skip" =>
        LET dt == columns[last.col].data_type
            r  == read([field_nodes |-> last.pre_field_nodes, buffers |-> last.pre_buffers,
                        pos |-> last.pre_pos], dt, Cx)
        IN  /\ last.ok /\ r.ok
            /\ field_nodes = r.q.field_nodes
            /\ rbuffers = r.q.buffers
            /\ field_nodes = Drop(last.pre_field_nodes, Len(PreOrder(dt, <<>>)))
            /\ rbuffers = Drop(last.pre_buffers, BufferCount(dt))
            /\ reader_pos = last.pre_pos

\* a nested column holding a dictionary and a sparse union has been skipped
\* after a column was read, and a column is left
C7_Witness ==
    /\ last.op = "skip" /\ last.col = 2
    /\ columns[2].data_type.kind = "Struct"
    /\ reader_pos > block_offset
    /\ Len(field_nodes) < Len(last.pre_field_nodes) - 6

(***************************************************************************)
(* C11: without compression a typed buffer holds the little-endian bytes   *)
(* of each element when is_little_endian is true and the big-endian bytes  *)
(* when it is false, element order kept, on the raw-copy path and on the   *)
(* per-element path alike; decoding the bytes with the same flag gives the *)
(* elements back; and bitmaps and raw value bytes are the same bytes under *)
(* both flags.                                                             *)
(***************************************************************************)
EmptyWriter ==
    [buffers |-> <<>>, arrow_data |-> <<>>, nodes |-> <<>>, offset |-> 0, log |-> <<>>,
     panicked |-> FALSE]

\* the columns written again from the start under another endianness flag
RECURSIVE WriteAll(_, _, _, _, _)
WriteAll(cols, i, w, le, comp) ==
    IF i > Len(cols) THEN w
    ELSE WriteAll(cols, i + 1, write(cols[i], w, <<i>>, le, comp), le, comp)

BodyOf(data, e) == SubSeq(data, e.start + 1, e.mid)

ElementsOf(bytes, width, le) ==
    [i \in 1..(Len(bytes) \div width) |->
        IF le THEN from_le_bytes(SubSeq(bytes, (i - 1) * width + 1, i * width))
        ELSE from_be_bytes(SubSeq(bytes, (i - 1) * width + 1, i * width))]

C11_Endianness ==
    compression = "None" =>
        LET other == WriteAll(columns, 1, EmptyWriter, ~is_little_endian, "None")
        IN  /\ ~panicked /\ ~other.panicked
            /\ Len(other.log) = Len(log)
            /\ other.buffers = buffers
            /\ \A k \in BufferEvents :
                  LET e == log[k]
                      o == other.log[k]
                      bytes == BodyOf(arrow_data, e)
                  IN  /\ o.ev = "buffer" /\ o.start = e.start /\ o.mid = e.mid
                      /\ Typed(e) =>
                            /\ Len(bytes) = Len(e.elems) * e.width
                            /\ \A i \in 1..Len(e.elems) :
                                  LET el == SubSeq(bytes, (i - 1) * e.width + 1, i * e.width)
                                  IN  /\ el = IF is_little_endian
                                              THEN to_le_bytes(e.elems[i], e.width)
                                              ELSE to_be_bytes(e.elems[i], e.width)
                                      /\ SubSeq(BodyOf(other.arrow_data, o),
                                                (i - 1) * e.width + 1, i * e.width)
                                           = Reverse(el)
                            /\ ElementsOf(bytes, e.width, is_little_endian) = e.elems
                      /\ ~Typed(e) => BodyOf(other.arrow_data, o) = bytes

\* a record written with the flag opposite to the native order that holds
\* negative 8-byte values from a slice, offsets from the iterator path, a
\* bitmap and raw value bytes
C11_Witness ==
    /\ compression = "None"
    /\ is_little_endian # native_le
    /\ \E k \in BufferEvents :
          /\ log[k].fn = "write_buffer" /\ log[k].width = 8
          /\ \E i \in 1..Len(log[k].elems) : log[k].elems[i] < 0
    /\ \E k \in BufferEvents : log[k].fn = "write_buffer_from_iter" /\ log[k].mid > log[k].start
    /\ \E k \in BufferEvents : log[k].fn = "write_bytes" /\ log[k].mid > log[k].start

(***************************************************************************)
(* C12: with a compression codec and an endianness flag that differs from  *)
(* the native order, writing a typed buffer is answered with               *)
(* NotYetImplemented on the slice path and on the iterator path alike: no  *)
(* typed buffer is written and the write is not aborted.                   *)
(***************************************************************************)
C12_NotYetImplemented ==
    (compression # "None" /\ is_little_endian # native_le) =>
        /\ ~panicked
        /\ \A k \in BufferEvents : ~Typed(log[k])

\* what the code does instead: a typed buffer from the iterator path is
\* written compressed, and a typed buffer from a slice aborts the call
C12_Witness ==
    /\ compression # "None" /\ is_little_endian # native_le
    /\ panicked
    /\ \E k \in BufferEvents : log[k].fn = "write_buffer_from_iter"

(***************************************************************************)
(* Page decoders (io/parquet/read/deserialize).                            *)
(*                                                                         *)
(* A DataPage carries its encoding, the dictionary page it refers to, the  *)
(* descriptor (repetition, maximum levels), the number of encoded values   *)
(* and the buffer, here already split into its three parts (repetition     *)
(* levels, definition levels, values).  Levels and dictionary indices are  *)
(* hybrid-RLE runs <<count, value>>; plain binary values are               *)
(* le_u32(length) followed by the bytes.                                   *)
(***************************************************************************)
Min(a, b) == IF a <= b THEN a ELSE b

RECURSIVE Runs(_)
Runs(runs) ==
    IF runs = <<>> THEN <<>>
    ELSE [i \in 1..Head(runs)[1] |-> Head(runs)[2]] \o Runs(Tail(runs))

\* HybridRleDecoder::new(buffer, bit_width, num_values): the values of the runs,
\* at most num_values of them
HybridRleDecoder(buffer, num_values) ==
    Take(Runs(buffer), Min(num_values, Len(Runs(buffer))))

\* the encoder of the fixtures: maximal runs of equal values
RECURSIVE hybrid_rle_encode(_)
hybrid_rle_encode(levels) ==
    IF levels = <<>> THEN <<>>
    ELSE IF Len(levels) >= 2 /\ levels[1] = levels[2]
         THEN <<<<Head(hybrid_rle_encode(Tail(levels)))[1] + 1, levels[1]>>>>
              \o Tail(hybrid_rle_encode(Tail(levels)))
         ELSE <<<<1, levels[1]>>>> \o hybrid_rle_encode(Tail(levels))

NoDict == [present |-> FALSE, offsets |-> <<>>, values |-> <<>>]

BinaryPageDict(offsets, values) == [present |-> TRUE, offsets |-> offsets, values |-> values]

DataPage(encoding, dict, repetition, num_values, reps, defs, values, max_rep, max_def) ==
    [encoding |-> encoding, dictionary_page |-> dict,
     repetition |-> repetition, num_values |-> num_values, rep_levels |-> reps,
     def_levels |-> defs, values |-> values, max_rep_level |-> max_rep,
     max_def_level |-> max_def]

\* BinaryIter::next: le_u32(length), then length bytes
BinaryIter_next(values) ==
    IF values = <<>>
    THEN [some |-> FALSE, panic |-> FALSE, value |-> <<>>, rest |-> <<>>]
    ELSE [some |-> TRUE, panic |-> FALSE,
          value |-> SubSeq(values, 5, 4 + from_le_bytes(Take(values, 4))),
          rest |-> Drop(values, 4 + from_le_bytes(Take(values, 4)))]

\* Binary<O>: offsets (starting at 0) and the bytes of the values
Binary_with_capacity == [offsets |-> <<0>>, values |-> <<>>]

Binary_len(b) == Len(b.offsets) - 1

Binary_push(b, x) ==
    [offsets |-> Append(b.offsets, b.offsets[Len(b.offsets)] + Len(x)),
     values |-> b.values \o x]

\* DecodedState = (Binary<O>, MutableBitmap)
with_capacity == [values |-> Binary_with_capacity, validity |-> <<>>]

DecodedState_len(decoded) == Binary_len(decoded.values)

\* State: Optional | Required | RequiredDictionary | OptionalDictionary, with the
\* iterators it holds: the validity levels left, the value bytes or the
\* dictionary indices left, the count of Required
State(kind, validity, values, remaining, dict) ==
    [kind |-> kind, validity |-> validity, values |-> values, remaining |-> remaining,
     dict |-> dict]

NoState == State("None", <<>>, <<>>, 0, NoDict)

\* OptionalPageValidity::new(page): the definition levels of a flat optional page
OptionalPageValidity(page) == HybridRleDecoder(page.def_levels, page.num_values)

\* utils::dict_indices_decoder(indices_buffer, page.num_values())
dict_indices_decoder(page) == HybridRleDecoder(page.values, page.num_values)

PageState_len(state) ==
    CASE state.kind = "Optional" -> Len(state.validity)
      [] state.kind = "Required" -> state.remaining
      [] state.kind = "RequiredDictionary" -> Len(state.values)
      [] state.kind = "OptionalDictionary" -> Len(state.validity)
      [] OTHER -> 0

IsDictionaryEncoding(encoding) == encoding \in {"PlainDictionary", "RleDictionary"}

\* utils::not_implemented(encoding, is_optional, false, "any", "Binary")
not_implemented == "NotYetImplemented"

build_state_always_plain(page) ==
    IF page.repetition = "Optional"
    THEN [ok |-> TRUE, err |-> "",
          state |-> State("Optional", OptionalPageValidity(page), page.values, 0, NoDict)]
    ELSE [ok |-> TRUE, err |-> "",
          state |-> State("Required", <<>>, page.values, page.num_values, NoDict)]

build_state(page) ==
    CASE IsDictionaryEncoding(page.encoding) /\ page.dictionary_page.present
            /\ page.repetition # "Optional" ->
            [ok |-> TRUE, err |-> "",
             state |-> State("RequiredDictionary", <<>>, dict_indices_decoder(page), 0,
                             page.dictionary_page)]
      [] IsDictionaryEncoding(page.encoding) /\ page.dictionary_page.present
            /\ page.repetition = "Optional" ->
            [ok |-> TRUE, err |-> "",
             state |-> State("OptionalDictionary", OptionalPageValidity(page),
                             dict_indices_decoder(page), 0, page.dictionary_page)]
      [] page.encoding = "Plain" /\ page.repetition = "Optional" ->
            [ok |-> TRUE, err |-> "",
             state |-> State("Optional", OptionalPageValidity(page), page.values, 0,
                             NoDict)]
      [] page.encoding = "Plain" /\ page.repetition # "Optional" ->
            [ok |-> TRUE, err |-> "",
             state |-> State("Required", <<>>, page.values, page.num_values, NoDict)]
      [] OTHER -> [ok |-> FALSE, err |-> not_implemented, state |-> NoState]

op_to_end_of_values(dict, index) ==
    IF index + 1 >= Len(dict.offsets)
    THEN [some |-> TRUE, panic |-> TRUE, value |-> <<>>]
    ELSE [some |-> TRUE, panic |-> FALSE,
          value |-> SubSeq(dict.values, dict.offsets[index + 1] + 1, Len(dict.values))]

\* the closure `op` of extend_from_state: the bytes of entry `index` of the
\* dictionary.  dict_offsets[index + 1] is a checked slice index: an index that
\* is not below the number of entries unwinds.
op(dict, index) ==
    IF index + 1 >= Len(dict.offsets)
    THEN [some |-> TRUE, panic |-> TRUE, value |-> <<>>]
    ELSE [some |-> TRUE, panic |-> FALSE,
          value |-> SubSeq(dict.values, dict.offsets[index + 1] + 1,
                           dict.offsets[index + 2])]

\* page.values.by_ref().next() of a plain state, page.values.by_ref().map(op).next()
\* of a dictionary state
values_next(state) ==
    IF state.dict.present
    THEN IF state.values = <<>>
         THEN [some |-> FALSE, panic |-> FALSE, value |-> <<>>, rest |-> <<>>]
         ELSE [some |-> TRUE, panic |-> op(state.dict, Head(state.values)).panic,
               value |-> op(state.dict, Head(state.values)).value,
               rest |-> Tail(state.values)]
    ELSE BinaryIter_next(state.values)

\* values.push(x) of the value just pulled
push_value(x, nx) ==
    IF nx.panic
    THEN [x EXCEPT !.panicked = TRUE]
    ELSE [x EXCEPT !.state.values = nx.rest,
                   !.decoded.values = Binary_push(@, nx.value)]

\* for x in page.values.by_ref()[.map(op)].take(additional) { values.push(x) }
RECURSIVE take_values(_, _)
take_values(x, additional) ==
    IF additional = 0 \/ x.panicked \/ ~values_next(x.state).some
    THEN x
    ELSE take_values(push_value(x, values_next(x.state)), additional - 1)

\* one definition level of a flat optional page: a present value is pulled and
\* pushed, a null pushes the default (empty) value
push_level(x, is_valid) ==
    IF is_valid
    THEN [push_value(x, values_next(x.state)) EXCEPT
              !.state.validity = Tail(@), !.decoded.validity = Append(@, 1)]
    ELSE [x EXCEPT !.state.validity = Tail(@), !.decoded.validity = Append(@, 0),
                   !.decoded.values = Binary_push(@, <<>>)]

\* utils::extend_from_decoder(validity, page_validity, Some(additional), values,
\* values_iter): up to `additional` levels
RECURSIVE extend_from_decoder(_, _)
extend_from_decoder(x, additional) ==
    IF additional = 0 \/ x.panicked \/ x.state.validity = <<>>
    THEN x
    ELSE extend_from_decoder(push_level(x, Head(x.state.validity) = 1), additional - 1)

\* The wrapped difference 2^64 - d of a usize subtraction that overflowed by d.
\* The model stands 2^20 for 2^64: every count of the model is far below it, so
\* the comparisons and differences the code makes with it come out the same.
wrapping(d) == 1048576 - d

\* usize subtraction: an overflow unwinds in a debug build and wraps in a release
\* build
usize_sub(a, b) ==
    IF a >= b THEN [panic |-> FALSE, value |-> a - b]
    ELSE IF debug_assertions THEN [panic |-> TRUE, value |-> 0]
    ELSE [panic |-> FALSE, value |-> wrapping(b - a)]

extend_from_state_whole_page(x, additional) ==
    IF x.state.kind \in {"Optional", "OptionalDictionary"}
    THEN extend_from_decoder(x, PageState_len(x.state))
    ELSE take_values([x EXCEPT !.state.remaining = 0], PageState_len(x.state))

\* BinaryDecoder::extend_from_state(state, decoded, additional); x holds the page
\* state, the decoded state and whether the call unwound
extend_from_state(x, additional) ==
    CASE x.state.kind = "Optional" -> extend_from_decoder(x, additional)
      [] x.state.kind = "Required" ->
            IF usize_sub(x.state.remaining, additional).panic
            THEN [x EXCEPT !.panicked = TRUE]
            ELSE take_values(
                     [x EXCEPT !.state.remaining =
                                   usize_sub(x.state.remaining, additional).value],
                     additional)
      [] x.state.kind = "OptionalDictionary" -> extend_from_decoder(x, additional)
      [] x.state.kind = "RequiredDictionary" -> take_values(x, additional)
      [] OTHER -> x

\* VecDeque: back(), pop_back()
Back(deque) == deque[Len(deque)]

PopBack(deque) == SubSeq(deque, 1, Len(deque) - 1)

\* what one pull of the page source yields: Ok(Some(page)) or Err(e); the end
\* of the sequence is Ok(None)
PullOk(page) == [err |-> "", page |-> page]

PullErr(e) ==
    [err |-> e, page |-> DataPage("Plain", NoDict, "Required", 0, <<>>, <<>>, <<>>, 0, 0)]

\* MaybeNext: Some(Ok(item)) | Some(Err(e)) | None | More, and the unwinding of
\* the call; st is the iterator after the call
MaybeNext(st, tag, err, item) == [st |-> st, tag |-> tag, err |-> err, item |-> item]

\* items.push_back(decoded) after decoder.extend_from_state(&mut page, &mut decoded, ..)
push_back(deque, x) ==
    [state |-> x.state, items |-> Append(deque, x.decoded), panicked |-> x.panicked]

\* while page.len() > 0 { a new decoded state of up to chunk_size values }
RECURSIVE while_page_len(_, _)
while_page_len(y, c) ==
    IF y.panicked \/ PageState_len(y.state) = 0
    THEN y
    ELSE while_page_len(
             push_back(y.items,
                       extend_from_state(
                           [state |-> y.state, decoded |-> with_capacity,
                            panicked |-> FALSE],
                           Min(c, PageState_len(y.state)))),
             c)

\* utils::extend_from_new_page(page, chunk_size, items, decoder): the chunk at the
\* back is filled up to chunk_size, the rest of the page goes to new chunks
utils_extend_from_new_page(state, c, deque) ==
    IF deque = <<>>
    THEN while_page_len(
             push_back(<<>>,
                       extend_from_state(
                           [state |-> state, decoded |-> with_capacity,
                            panicked |-> FALSE],
                           Min(c, PageState_len(state)))),
             c)
    ELSE while_page_len(
             push_back(PopBack(deque),
                       extend_from_state(
                           [state |-> state, decoded |-> Back(deque), panicked |-> FALSE],
                           Min(c - DecodedState_len(Back(deque)), PageState_len(state)))),
             c)

\* the end of utils::next for a new page: More while the only chunk is short
utils_next_page(st, y, c) ==
    IF y.panicked
    THEN MaybeNext([st EXCEPT !.items = y.items, !.aborted = TRUE], "Panic", "",
                   with_capacity)
    ELSE IF Len(y.items) = 1 /\ DecodedState_len(Head(y.items)) < c
    THEN MaybeNext([st EXCEPT !.items = y.items], "More", "", with_capacity)
    ELSE MaybeNext([st EXCEPT !.items = Tail(y.items)], "Some", "", Head(y.items))

\* utils::next(iter, items, chunk_size, decoder)
utils_next(st, c) ==
    IF Len(st.items) > 1
    THEN MaybeNext([st EXCEPT !.items = Tail(@)], "Some", "", Head(st.items))
    ELSE IF st.iter = <<>>
    THEN IF st.items # <<>>
         THEN MaybeNext([st EXCEPT !.items = Tail(@)], "Some", "", Head(st.items))
         ELSE MaybeNext(st, "None", "", with_capacity)
    ELSE IF Head(st.iter).err # ""
    THEN MaybeNext([st EXCEPT !.iter = Tail(@)], "Err", Head(st.iter).err, with_capacity)
    ELSE IF ~build_state(Head(st.iter).page).ok
    THEN MaybeNext([st EXCEPT !.iter = Tail(@)], "Err",
                   build_state(Head(st.iter).page).err, with_capacity)
    ELSE utils_next_page([st EXCEPT !.iter = Tail(@)],
                         utils_extend_from_new_page(build_state(Head(st.iter).page).state,
                                                    c, st.items),
                         c)

\* From<MutableBitmap> for Option<Bitmap>: None when no bit is unset
into_validity(validity) ==
    IF \E i \in DOMAIN validity : validity[i] = 0
    THEN [present |-> TRUE, bits |-> validity]
    ELSE [present |-> FALSE, bits |-> <<>>]

\* what next() hands to the caller: Some(Ok(array)) | Some(Err(e)) | None
Returned(tag, err, offsets, values, validity) ==
    [tag |-> tag, err |-> err, offsets |-> offsets, values |-> values,
     validity |-> validity]

ReturnedNone == Returned("None", "", <<>>, <<>>, into_validity(<<>>))

ReturnedErr(e) == Returned("Err", e, <<>>, <<>>, into_validity(<<>>))

ReturnedPanic == Returned("Panic", "", <<>>, <<>>, into_validity(<<>>))

\* A::try_new(data_type, offsets, values, validity)
try_new(offsets, values, validity) ==
    IF validity.present /\ Len(validity.bits) # Len(offsets) - 1
    THEN ReturnedErr("OutOfSpec")
    ELSE Returned("Some", "", offsets, values, validity)

\* finish(data_type, values, validity)
finish(values, validity) == try_new(values.offsets, values.values, into_validity(validity))

\* Iterator::next of Iter: More pulls the next page within the same call
RECURSIVE Iter_next(_, _)
Iter_match(maybe_state, c) ==
    CASE maybe_state.tag = "Some" ->
            [st |-> maybe_state.st,
             ret |-> finish(maybe_state.item.values, maybe_state.item.validity)]
      [] maybe_state.tag = "Err" ->
            [st |-> maybe_state.st, ret |-> ReturnedErr(maybe_state.err)]
      [] maybe_state.tag = "None" -> [st |-> maybe_state.st, ret |-> ReturnedNone]
      [] maybe_state.tag = "More" -> Iter_next(maybe_state.st, c)
      [] OTHER -> [st |-> maybe_state.st, ret |-> ReturnedPanic]

Iter_next(st, c) == Iter_match(utils_next(st, c), c)

(***************************************************************************)
(* The pages of the model.  A logical column is a sequence of slots, each  *)
(* a present byte string or a null; it is encoded Plain or with indices    *)
(* into a dictionary page.                                                 *)
(***************************************************************************)
Present(value) == [valid |-> TRUE, value |-> value]

Absent == [valid |-> FALSE, value |-> <<>>]

ValA == <<97>>

ValBC == <<98, 99>>

\* the dictionary page of the column: "a", "bc", ""
Dict == BinaryPageDict(<<0, 1, 3, 3>>, <<97, 98, 99>>)

DictEntry(dict, i) == SubSeq(dict.values, dict.offsets[i + 1] + 1, dict.offsets[i + 2])

index_of(dict, value) ==
    CHOOSE i \in 0..(Len(dict.offsets) - 2) : DictEntry(dict, i) = value

PresentValues(column) == SelectSeq(column, LAMBDA slot : slot.valid)

\* the values part of a Plain page: le_u32(length), bytes, for each present value
plain_values(column) ==
    Flatten([i \in 1..Len(PresentValues(column)) |->
        to_le_bytes(Len(PresentValues(column)[i].value), 4)
        \o PresentValues(column)[i].value])

\* the values part of a dictionary-encoded page: the indices of the present values
dictionary_indices(column, dict) ==
    hybrid_rle_encode([i \in 1..Len(PresentValues(column)) |->
        index_of(dict, PresentValues(column)[i].value)])

\* the definition levels of a flat page: none when required, 1 (present) or 0 (null)
flat_def_levels(column, repetition) ==
    IF repetition = "Optional"
    THEN hybrid_rle_encode([i \in 1..Len(column) |-> IF column[i].valid THEN 1 ELSE 0])
    ELSE <<>>

FlatPage(column, repetition, encoding, dictionary_page) ==
    DataPage(encoding, dictionary_page, repetition, Len(column), <<>>,
             flat_def_levels(column, repetition),
             IF IsDictionaryEncoding(encoding)
             THEN dictionary_indices(column, Dict)
             ELSE plain_values(column),
             0, IF repetition = "Optional" THEN 1 ELSE 0)

\* a dictionary-encoded page whose second index (3) is not an entry of Dict
CorruptPage(repetition) ==
    DataPage("RleDictionary", Dict, repetition, 2, <<>>,
             IF repetition = "Optional" THEN <<<<2, 1>>>> ELSE <<>>,
             <<<<1, 0>>, <<1, 3>>>>, 0, IF repetition = "Optional" THEN 1 ELSE 0)

Columns(repetition) ==
    IF repetition = "Optional"
    THEN {<<Present(ValA), Absent, Present(ValBC)>>,
          <<Absent, Present(ValA), Present(ValA), Present(<<>>)>>}
    ELSE {<<Present(ValA), Present(ValBC), Present(ValA)>>,
          <<Present(ValBC), Present(<<>>), Present(ValBC), Present(ValA)>>}

\* the pages a column of the given repetition may hold: decodable ones, pages of
\* an encoding or combination build_state does not know, and a corrupt one
Pages(repetition) ==
    {FlatPage(column, repetition, encoding, Dict) :
        column \in Columns(repetition), encoding \in {"Plain", "RleDictionary"}}
    \cup {FlatPage(<<Present(ValBC), Present(ValA)>>, repetition, "PlainDictionary", Dict),
          FlatPage(<<Present(ValBC)>>, repetition, "Plain", NoDict),
          FlatPage(<<Present(ValA)>>, repetition, "DeltaLengthByteArray", NoDict),
          FlatPage(<<Present(ValA)>>, repetition, "RleDictionary", NoDict),
          CorruptPage(repetition)}

Pulls(repetition) == {PullOk(page) : page \in Pages(repetition)} \cup {PullErr("Io")}

SeqsUpTo(S, n) == UNION {[1..k -> S] : k \in 0..n}

MaxPages == 2

MaxChunkSize == 3

MaxNone == 2

\* the IPC writer and reader take no part in the runs of the page decoders
NoIpc ==
    /\ native_le = TRUE
    /\ is_little_endian = TRUE
    /\ compression = "None"
    /\ buffers = <<>>
    /\ arrow_data = <<>>
    /\ nodes = <<>>
    /\ offset = 0
    /\ panicked = FALSE
    /\ log = <<>>
    /\ columns = <<>>
    /\ phase = "write"
    /\ field_nodes = <<>>
    /\ rbuffers = <<>>
    /\ reader = <<>>
    /\ reader_pos = 0
    /\ dictionaries = [id \in {7} |-> KeyVals]
    /\ next_col = 1
    /\ last = NoLast
    /\ dictionary_batches = <<>>

\* Iter::new(iter, data_type, chunk_size) over the pages of one column
IterNew ==
    /\ NoIpc
    /\ debug_assertions \in BOOLEAN
    /\ \E repetition \in {"Required", "Optional"} :
           source \in SeqsUpTo(Pulls(repetition), MaxPages)
    /\ iter = source
    /\ chunk_size \in 1..MaxChunkSize
    /\ init = <<>>
    /\ items = <<>>
    /\ nested_items = <<>>
    /\ returned = <<>>
    /\ aborted = FALSE
    /\ page_state = <<>>

\* the calls made after the first None
NonesReturned == Cardinality({i \in DOMAIN returned : returned[i].tag = "None"})

IterNextDone(r) ==
    /\ iter' = r.st.iter
    /\ items' = r.st.items
    /\ aborted' = r.st.aborted
    /\ returned' = Append(returned, r.ret)
    /\ UNCHANGED <<debug_assertions, source, chunk_size, init, nested_items, page_state>>
    /\ UNCHANGED ipc_vars

\* one call of Iter::next
IterNext ==
    /\ ~aborted
    /\ NonesReturned < MaxNone
    /\ IterNextDone(Iter_next([iter |-> iter, items |-> items, aborted |-> FALSE],
                              chunk_size))

IterSpec == IterNew /\ [][IterNext]_vars

(***************************************************************************)
(* The Decoder interface call by call: build_state on the page pulled,     *)
(* then calls of extend_from_state, the first one unconditionally and the  *)
(* later ones while the page reports a length above 0.  The count handed   *)
(* in is any count up to chunk_size: the callers in nested_utils.rs pass   *)
(* the count they still need, whatever the page has left.                  *)
(***************************************************************************)
MaxCalls == 3

\* observation of one call of extend_from_state: the count, the State before
\* and after, the DecodedState it filled and whether it unwound
Extended(additional, before, x) ==
    [additional |-> additional, before |-> before, after |-> x.state,
     decoded |-> x.decoded, panicked |-> x.panicked]

\* a source of one page that build_state accepts
DecoderNew ==
    /\ NoIpc
    /\ debug_assertions \in BOOLEAN
    /\ \E repetition \in {"Required", "Optional"} :
           source \in [1..1 -> {PullOk(page) : page \in {p \in Pages(repetition) :
                                                           build_state(p).ok}}]
    /\ iter = source
    /\ chunk_size \in 1..MaxChunkSize
    /\ init = <<>>
    /\ items = <<>>
    /\ nested_items = <<>>
    /\ returned = <<>>
    /\ aborted = FALSE
    /\ page_state = <<>>

\* let page = decoder.build_state(page)?
BuildState ==
    /\ page_state = <<>>
    /\ iter # <<>>
    /\ page_state' = build_state(Head(iter).page).state
    /\ iter' = Tail(iter)
    /\ UNCHANGED <<debug_assertions, source, chunk_size, init, items, nested_items,
                   returned, aborted>>
    /\ UNCHANGED ipc_vars

ExtendFromStateDone(additional, x) ==
    /\ page_state' = x.state
    /\ aborted' = x.panicked
    /\ returned' = Append(returned, Extended(additional, page_state, x))
    /\ UNCHANGED <<debug_assertions, source, iter, chunk_size, init, items, nested_items>>
    /\ UNCHANGED ipc_vars

\* decoder.extend_from_state(&mut page, &mut decoded, additional) into a new
\* DecodedState
ExtendFromState(additional) ==
    /\ page_state # <<>>
    /\ ~aborted
    /\ Len(returned) < MaxCalls
    /\ returned = <<>> \/ PageState_len(page_state) > 0
    /\ ExtendFromStateDone(additional,
                           extend_from_state([state |-> page_state,
                                              decoded |-> with_capacity,
                                              panicked |-> FALSE],
                                             additional))

DecoderNext ==
    \/ BuildState
    \/ \E additional \in 1..chunk_size : ExtendFromState(additional)

DecoderSpec == DecoderNew /\ [][DecoderNext]_vars

(***************************************************************************)
(* Claims about the flat page decoder.                                     *)
(***************************************************************************)
\* a page build_state accepts whose indices, if any, all lie in the dictionary
WellFormed(page) ==
    \/ page.encoding = "Plain"
    \/ /\ IsDictionaryEncoding(page.encoding)
       /\ page.dictionary_page.present
       /\ \A i \in DOMAIN Runs(page.values) :
              Runs(page.values)[i] + 1 < Len(page.dictionary_page.offsets)

\* the number of values of a returned chunk
ChunkLen(r) == Len(r.offsets) - 1

CeilDiv(n, c) == (n + c - 1) \div c

C16_Kind(page) ==
    CASE page.encoding = "Plain" /\ page.repetition = "Required" -> "Required"
      [] page.encoding = "Plain" /\ page.repetition = "Optional" -> "Optional"
      [] page.encoding \in {"PlainDictionary", "RleDictionary"}
            /\ page.dictionary_page.present /\ page.repetition = "Required" ->
            "RequiredDictionary"
      [] page.encoding \in {"PlainDictionary", "RleDictionary"}
            /\ page.dictionary_page.present /\ page.repetition = "Optional" ->
            "OptionalDictionary"
      [] OTHER -> ""

\* C16: build_state gives (Plain, required) the state Required, (Plain,
\* optional) Optional, a dictionary encoding with a dictionary page
\* RequiredDictionary or OptionalDictionary; for every other combination it
\* returns NotYetImplemented, and the call of next() that pulls such a page
\* returns that error and leaves the decoded items as they were.
C16_BuildState ==
    /\ [](\A i \in DOMAIN source :
              source[i].err = "" =>
                  IF C16_Kind(source[i].page) # ""
                  THEN /\ build_state(source[i].page).ok
                       /\ build_state(source[i].page).state.kind = C16_Kind(source[i].page)
                  ELSE /\ ~build_state(source[i].page).ok
                       /\ build_state(source[i].page).err = "NotYetImplemented")
    /\ [][(/\ iter # <<>>
           /\ Head(iter).err = ""
           /\ C16_Kind(Head(iter).page) = ""
           /\ Len(items) <= 1)
          => (/\ returned' = Append(returned, ReturnedErr("NotYetImplemented"))
              /\ items' = items
              /\ iter' = Tail(iter))]_vars

\* a dictionary-encoded page without a dictionary page was pulled while a chunk
\* was pending, and next() returned the error
C16_Witness ==
    /\ Len(source) = 2
    /\ source[2].err = ""
    /\ IsDictionaryEncoding(source[2].page.encoding)
    /\ ~source[2].page.dictionary_page.present
    /\ iter = <<>>
    /\ Len(items) = 1
    /\ returned # <<>>
    /\ returned[Len(returned)] = ReturnedErr("NotYetImplemented")

\* page k of the source has been pulled by a call of next()
Pulled(k) == Len(source) - Len(iter) >= k

\* an accepted dictionary-encoded page holding an index outside its dictionary
HasIndexOutOfRange(page) ==
    /\ IsDictionaryEncoding(page.encoding)
    /\ page.dictionary_page.present
    /\ ~WellFormed(page)

\* C17: once a dictionary-encoded page with an index that is not below the
\* number of dictionary entries has been pulled, next() has not unwound, it has
\* returned a CorruptStream error, and no returned chunk holds a value of a page
\* pulled in that call.
C17_CorruptStream ==
    \A k \in DOMAIN source :
        (source[k].err = "" /\ HasIndexOutOfRange(source[k].page) /\ Pulled(k)) =>
            /\ ~aborted
            /\ \E i \in DOMAIN returned : returned[i] = ReturnedErr("CorruptStream")

\* the call that pulled the corrupt page unwound at the slice index of `op`
C17_Witness ==
    /\ Len(source) = 1
    /\ source[1].err = ""
    /\ HasIndexOutOfRange(source[1].page)
    /\ aborted
    /\ returned = <<ReturnedPanic>>

\* the logical column a page of the model encodes
AllColumns(repetition) ==
    Columns(repetition) \cup {<<Present(ValBC), Present(ValA)>>, <<Present(ValBC)>>}

ColumnOf(page) ==
    CHOOSE column \in AllColumns(page.repetition) :
        \E d \in {Dict, NoDict} :
            page = FlatPage(column, page.repetition, page.encoding, d)

\* the same column in the other encoding: Plain for a dictionary-encoded page,
\* RLE-dictionary for a Plain page
OtherEncoding(pull) ==
    PullOk(FlatPage(ColumnOf(pull.page), pull.page.repetition,
                    IF pull.page.encoding = "Plain" THEN "RleDictionary" ELSE "Plain",
                    Dict))

\* what the first n calls of next() return for a source
RECURSIVE Calls(_, _, _, _)
Calls(st, c, n, acc) ==
    IF n = 0 THEN acc
    ELSE Calls(Iter_next(st, c).st, c, n - 1, Append(acc, Iter_next(st, c).ret))

Nested(kind, nullable) ==
    [kind |-> kind, nullable |-> nullable, length |-> 0, offsets |-> <<>>,
     validity |-> <<>>]

InitLevel(kind, nullable) == [kind |-> kind, is_nullable |-> nullable]

\* Nested::is_nullable
is_nullable(nest) ==
    CASE nest.kind = "NestedPrimitive" -> nest.nullable
      [] nest.kind = "NestedOptional" -> TRUE
      [] nest.kind = "NestedValid" -> FALSE
      [] nest.kind = "NestedStructValid" -> FALSE
      [] nest.kind = "NestedStruct" -> FALSE
      [] OTHER -> FALSE

\* Nested::push(length, is_valid)
push(nest, length, is_valid) ==
    CASE nest.kind = "NestedPrimitive" -> [nest EXCEPT !.length = @ + 1]
      [] nest.kind = "NestedOptional" ->
            [nest EXCEPT !.offsets = Append(@, length),
                         !.validity = Append(@, IF is_valid THEN 1 ELSE 0)]
      [] nest.kind = "NestedValid" -> [nest EXCEPT !.offsets = Append(@, length)]
      [] nest.kind = "NestedStructValid" -> [nest EXCEPT !.length = @ + 1]
      [] nest.kind = "NestedStruct" ->
            [nest EXCEPT !.validity = Append(@, IF is_valid THEN 1 ELSE 0)]
      [] OTHER -> nest

\* Nested::len: the number of rows
Nested_len(nest) ==
    CASE nest.kind = "NestedPrimitive" -> nest.length
      [] nest.kind = "NestedOptional" -> Len(nest.offsets)
      [] nest.kind = "NestedValid" -> Len(nest.offsets)
      [] nest.kind = "NestedStructValid" -> nest.length
      [] nest.kind = "NestedStruct" -> Len(nest.validity)
      [] OTHER -> 0

\* Nested::num_values
Nested_num_values(nest) ==
    CASE nest.kind = "NestedPrimitive" -> nest.length
      [] nest.kind \in {"NestedOptional", "NestedValid"} ->
            IF nest.offsets = <<>> THEN 0 ELSE nest.offsets[Len(nest.offsets)]
      [] nest.kind = "NestedStructValid" -> nest.length
      [] nest.kind = "NestedStruct" -> Len(nest.validity)
      [] OTHER -> 0

\* Nested::inner: the offsets and the validity the layer hands out
inner(nest) ==
    CASE nest.kind = "NestedOptional" ->
            [offsets |-> nest.offsets, validity |-> [present |-> TRUE, bits |-> nest.validity]]
      [] nest.kind = "NestedValid" ->
            [offsets |-> nest.offsets, validity |-> [present |-> FALSE, bits |-> <<>>]]
      [] OTHER -> [offsets |-> <<>>, validity |-> [present |-> FALSE, bits |-> <<>>]]

\* init_nested_recursive, one level
init_nested_level(level) ==
    CASE level.kind = "Primitive" -> Nested("NestedPrimitive", level.is_nullable)
      [] level.kind = "List" ->
            IF level.is_nullable THEN Nested("NestedOptional", TRUE)
            ELSE Nested("NestedValid", FALSE)
      [] OTHER ->
            IF level.is_nullable THEN Nested("NestedStruct", TRUE)
            ELSE Nested("NestedStructValid", FALSE)

\* init_nested(init, capacity): a NestedState, the vector of its layers
init_nested(levels) == [d \in DOMAIN levels |-> init_nested_level(levels[d])]

\* NestedState::len: the rows of the outermost layer
NestedState_len(nested) == Nested_len(nested[1])

\* NestedState::num_values: the values of the innermost layer
NestedState_num_values(nested) == Nested_num_values(nested[Len(nested)])

\* NestedPage::new(page): the (rep, def) pairs of the page, zipped
NestedPage(page) ==
    [i \in 1..Min(Len(HybridRleDecoder(page.rep_levels, page.num_values)),
                  Len(HybridRleDecoder(page.def_levels, page.num_values))) |->
        <<HybridRleDecoder(page.rep_levels, page.num_values)[i],
          HybridRleDecoder(page.def_levels, page.num_values)[i]>>]

\* values_count holding the length of each layer itself
values_count_own_length(nested) == [d \in DOMAIN nested |-> Nested_len(nested[d])]

\* values_count of extend_offsets2: the length of the next layer, for the last
\* layer its own length
values_count(nested) ==
    [d \in DOMAIN nested |->
        IF d < Len(nested) THEN Nested_len(nested[d + 1]) ELSE Nested_len(nested[d])]

\* cum_sum with 1 for every layer, nullable or not
cum_sum_one_per_layer(nested, d) == d - 1

\* cum_sum[depth] of extend_offsets2: 2 for each nullable layer above, else 1
RECURSIVE cum_sum(_, _)
cum_sum(nested, d) ==
    IF d = 1 THEN 0
    ELSE cum_sum(nested, d - 1) + (IF is_nullable(nested[d - 1]) THEN 2 ELSE 1)

\* the pushes of one (rep, def) pair into the layers
push_pair(nested, rep, def) ==
    [d \in DOMAIN nested |->
        IF d - 1 >= rep /\ def >= cum_sum(nested, d)
        THEN push(nested[d], values_count(nested)[d],
                  is_nullable(nested[d]) /\ def # cum_sum(nested, d))
        ELSE nested[d]]

next_rep(pairs) == IF pairs = <<>> THEN 0 ELSE pairs[1][1]

\* extend_offsets2(page, nested, additional): z holds the pairs left in the page
\* and the NestedState; rows counts the pairs with rep = 0 seen so far
RECURSIVE extend_offsets2(_, _, _)
extend_offsets2(z, additional, rows) ==
    IF z.page = <<>> THEN z
    ELSE IF next_rep(Tail(z.page)) = 0
            /\ rows + (IF Head(z.page)[1] = 0 THEN 1 ELSE 0) = additional + 1
         THEN [page |-> Tail(z.page),
               nested |-> push_pair(z.nested, Head(z.page)[1], Head(z.page)[2])]
         ELSE extend_offsets2(
                  [page |-> Tail(z.page),
                   nested |-> push_pair(z.nested, Head(z.page)[1], Head(z.page)[2])],
                  additional,
                  rows + (IF Head(z.page)[1] = 0 THEN 1 ELSE 0))

\* items.push_back(nested) after extend_offsets2(page, &mut nested, ..)
push_back_nested(deque, z) ==
    [page |-> z.page, items |-> Append(deque, z.nested), panicked |-> FALSE]

\* while page.len() > 0 { a new NestedState of up to chunk_size rows }
RECURSIVE while_nested_page_len(_, _, _)
while_nested_page_len(y, levels, c) ==
    IF y.page = <<>>
    THEN y
    ELSE while_nested_page_len(
             push_back_nested(y.items,
                              extend_offsets2([page |-> y.page,
                                               nested |-> init_nested(levels)],
                                              c, 0)),
             levels, c)

\* extend_offsets1(page, init, items, chunk_size).  debug_assert! unwinds in a
\* debug build only; in a release build chunk_size - nested.len() wraps.
extend_offsets1(page, levels, deque, c) ==
    IF deque = <<>>
    THEN while_nested_page_len(
             push_back_nested(<<>>,
                              extend_offsets2([page |-> page,
                                               nested |-> init_nested(levels)],
                                              c, 0)),
             levels, c)
    ELSE IF debug_assertions /\ ~(NestedState_len(Back(deque)) < c)
    THEN [page |-> page, items |-> deque, panicked |-> TRUE]
    ELSE while_nested_page_len(
             push_back_nested(PopBack(deque),
                              extend_offsets2([page |-> page, nested |-> Back(deque)],
                                              usize_sub(c, NestedState_len(Back(deque))).value,
                                              0)),
             levels, c)

(***************************************************************************)
(* The leaf decoder handed to the nested `next`: the nested decoder of an  *)
(* i32 column (primitive/nested.rs).  Its state is Optional (definition    *)
(* levels, maximum definition level, plain values) or Required (plain      *)
(* values); its decoded state is (Vec<i32>, MutableBitmap).                *)
(***************************************************************************)
PrimitiveState(kind, def_levels, max_def, values) ==
    [kind |-> kind, def_levels |-> def_levels, max_def |-> max_def, values |-> values]

primitive_with_capacity == [values |-> <<>>, validity |-> <<>>]

primitive_len(decoded) == Len(decoded.values)

\* Optional::new(page): the definition levels and max_def of the page
Optional(page) == HybridRleDecoder(page.def_levels, page.num_values)

primitive_build_state(page) ==
    CASE page.encoding = "Plain" /\ page.repetition = "Optional" ->
            [ok |-> TRUE, err |-> "",
             state |-> PrimitiveState("Optional", Optional(page), page.max_def_level,
                                      page.values)]
      [] page.encoding = "Plain" /\ page.repetition # "Optional" ->
            [ok |-> TRUE, err |-> "",
             state |-> PrimitiveState("Required", <<>>, page.max_def_level, page.values)]
      [] OTHER ->
            [ok |-> FALSE, err |-> not_implemented,
             state |-> PrimitiveState("None", <<>>, 0, <<>>)]

\* values.push(new_values.next().unwrap()); validity.push(true)
push_new_value(x) ==
    [x EXCEPT !.state.def_levels = Tail(@),
              !.state.values = Drop(@, 4),
              !.decoded.values = Append(@, from_le_bytes(Take(x.state.values, 4))),
              !.decoded.validity = Append(@, 1)]

\* values.push(C::default()); validity.push(false)
push_default(x) ==
    [x EXCEPT !.state.def_levels = Tail(@),
              !.decoded.values = Append(@, 0),
              !.decoded.validity = Append(@, 0)]

\* read_optional_values(def_levels, max_def, new_values, values, validity, remaining)
RECURSIVE read_optional_values(_, _)
read_optional_remaining(x, sub) ==
    IF sub.panic THEN [x EXCEPT !.panicked = TRUE]
    ELSE IF sub.value = 0 THEN x
    ELSE read_optional_values(x, sub.value)

\* a decoder that pushes a default for every level below max_def
read_optional_values_default_below(x, remaining) ==
    IF x.panicked \/ x.state.def_levels = <<>>
    THEN x
    ELSE IF Head(x.state.def_levels) = x.state.max_def
    THEN IF x.state.values = <<>>
         THEN [x EXCEPT !.panicked = TRUE]
         ELSE read_optional_remaining(push_new_value(x), usize_sub(remaining, 1))
    ELSE read_optional_remaining(push_default(x), usize_sub(remaining, 1))

read_optional_values(x, remaining) ==
    IF x.panicked \/ x.state.def_levels = <<>>
    THEN x
    ELSE IF Head(x.state.def_levels) = x.state.max_def
    THEN IF x.state.values = <<>>
         THEN [x EXCEPT !.panicked = TRUE]
         ELSE read_optional_remaining(push_new_value(x), usize_sub(remaining, 1))
    ELSE IF Head(x.state.def_levels) = x.state.max_def - 1
    THEN read_optional_remaining(push_default(x), usize_sub(remaining, 1))
    ELSE IF remaining = 0
    THEN [x EXCEPT !.state.def_levels = Tail(@)]
    ELSE read_optional_values([x EXCEPT !.state.def_levels = Tail(@)], remaining)

\* values.extend(page.values.by_ref().take(remaining)) of a Required state
RECURSIVE take_primitive(_, _)
take_primitive(x, remaining) ==
    IF remaining = 0 \/ x.state.values = <<>>
    THEN x
    ELSE take_primitive(
             [x EXCEPT !.state.values = Drop(@, 4),
                       !.decoded.values = Append(@, from_le_bytes(Take(x.state.values, 4)))],
             remaining - 1)

primitive_extend_from_state(x, remaining) ==
    IF x.state.kind = "Optional"
    THEN read_optional_values(x, remaining)
    ELSE take_primitive(x, remaining)

\* items.push_back(decoded) after decoder.extend_from_state(&mut page, &mut decoded, ..)
push_back_decoded(deque, x) ==
    [state |-> x.state, items |-> Append(deque, x.decoded), panicked |-> x.panicked]

\* assert_eq!(decoded.len(), needed); items.push_back(decoded)
push_back_needed(deque, x, needed) ==
    IF x.panicked \/ primitive_len(x.decoded) # needed
    THEN [state |-> x.state, items |-> deque, panicked |-> TRUE]
    ELSE push_back_decoded(deque, x)

\* for nest in nested.iter().skip(1) { a new decoded state of nest.num_values() }
RECURSIVE for_nest_skip_1(_, _, _)
for_nest_skip_1(y, nested, i) ==
    IF y.panicked \/ i > Len(nested)
    THEN y
    ELSE for_nest_skip_1(
             push_back_decoded(y.items,
                               primitive_extend_from_state(
                                   [state |-> y.state, decoded |-> primitive_with_capacity,
                                    panicked |-> FALSE],
                                   NestedState_num_values(nested[i]))),
             nested, i + 1)

\* extend_from_new_page(page, items, nested, decoder)
extend_from_new_page(state, deque, nested) ==
    IF deque = <<>>
    THEN for_nest_skip_1(
             push_back_needed(<<>>,
                              primitive_extend_from_state(
                                  [state |-> state, decoded |-> primitive_with_capacity,
                                   panicked |-> FALSE],
                                  NestedState_num_values(Back(nested))),
                              NestedState_num_values(Back(nested))),
             nested, 2)
    ELSE IF debug_assertions
            /\ ~(primitive_len(Back(deque)) < NestedState_num_values(Back(nested)))
    THEN [state |-> state, items |-> deque, panicked |-> TRUE]
    ELSE for_nest_skip_1(
             push_back_needed(PopBack(deque),
                              primitive_extend_from_state(
                                  [state |-> state, decoded |-> Back(deque),
                                   panicked |-> FALSE],
                                  usize_sub(NestedState_num_values(Back(nested)),
                                            primitive_len(Back(deque))).value),
                              NestedState_num_values(Back(nested))),
             nested, 2)

\* the end of next after extend_from_new_page: More while the front NestedState
\* is short of chunk_size
next_decoded(st, y, c) ==
    IF y.panicked
    THEN MaybeNext([st EXCEPT !.items = y.items, !.aborted = TRUE], "Panic", "",
                   [nested |-> <<>>, decoded |-> primitive_with_capacity])
    ELSE IF NestedState_len(Head(st.nested_items)) < c
    THEN MaybeNext([st EXCEPT !.items = y.items], "More", "",
                   [nested |-> <<>>, decoded |-> primitive_with_capacity])
    ELSE MaybeNext([st EXCEPT !.items = Tail(y.items),
                              !.nested_items = Tail(st.nested_items)],
                   "Some", "",
                   [nested |-> Head(st.nested_items), decoded |-> Head(y.items)])

\* next after extend_offsets1: build_state, then extend_from_new_page
next_page(st, page, o, c) ==
    IF o.panicked
    THEN MaybeNext([st EXCEPT !.aborted = TRUE], "Panic", "",
                   [nested |-> <<>>, decoded |-> primitive_with_capacity])
    ELSE IF ~primitive_build_state(page).ok
    THEN MaybeNext([st EXCEPT !.nested_items = o.items], "Err",
                   primitive_build_state(page).err,
                   [nested |-> <<>>, decoded |-> primitive_with_capacity])
    ELSE next_decoded([st EXCEPT !.nested_items = o.items],
                      extend_from_new_page(primitive_build_state(page).state, st.items,
                                           o.items),
                      c)

\* a next that returns the head without pulling only from three buffered chunks on
next_from_three_buffered(st, levels, c) ==
    IF Len(st.items) > 2
    THEN MaybeNext([st EXCEPT !.items = Tail(@), !.nested_items = Tail(@)], "Some", "",
                   [nested |-> Head(st.nested_items), decoded |-> Head(st.items)])
    ELSE IF st.iter = <<>>
    THEN IF st.nested_items # <<>>
         THEN IF st.items = <<>>
              THEN MaybeNext([st EXCEPT !.nested_items = Tail(@), !.aborted = TRUE],
                             "Panic", "",
                             [nested |-> <<>>, decoded |-> primitive_with_capacity])
              ELSE MaybeNext([st EXCEPT !.items = Tail(@), !.nested_items = Tail(@)],
                             "Some", "",
                             [nested |-> Head(st.nested_items), decoded |-> Head(st.items)])
         ELSE MaybeNext(st, "None", "",
                        [nested |-> <<>>, decoded |-> primitive_with_capacity])
    ELSE IF Head(st.iter).err # ""
    THEN MaybeNext([st EXCEPT !.iter = Tail(@)], "Err", Head(st.iter).err,
                   [nested |-> <<>>, decoded |-> primitive_with_capacity])
    ELSE next_page([st EXCEPT !.iter = Tail(@)], Head(st.iter).page,
                   extend_offsets1(NestedPage(Head(st.iter).page), levels,
                                   st.nested_items, c),
                   c)

\* next(iter, items, nested_items, init, chunk_size, decoder)
next(st, levels, c) ==
    IF Len(st.items) > 1
    THEN MaybeNext([st EXCEPT !.items = Tail(@), !.nested_items = Tail(@)], "Some", "",
                   [nested |-> Head(st.nested_items), decoded |-> Head(st.items)])
    ELSE IF st.iter = <<>>
    THEN IF st.nested_items # <<>>
         THEN IF st.items = <<>>
              THEN MaybeNext([st EXCEPT !.nested_items = Tail(@), !.aborted = TRUE],
                             "Panic", "",
                             [nested |-> <<>>, decoded |-> primitive_with_capacity])
              ELSE MaybeNext([st EXCEPT !.items = Tail(@), !.nested_items = Tail(@)],
                             "Some", "",
                             [nested |-> Head(st.nested_items), decoded |-> Head(st.items)])
         ELSE MaybeNext(st, "None", "",
                        [nested |-> <<>>, decoded |-> primitive_with_capacity])
    ELSE IF Head(st.iter).err # ""
    THEN MaybeNext([st EXCEPT !.iter = Tail(@)], "Err", Head(st.iter).err,
                   [nested |-> <<>>, decoded |-> primitive_with_capacity])
    ELSE next_page([st EXCEPT !.iter = Tail(@)], Head(st.iter).page,
                   extend_offsets1(NestedPage(Head(st.iter).page), levels,
                                   st.nested_items, c),
                   c)

\* what the nested iterator hands to the caller: Some(Ok((nested, decoded))) |
\* Some(Err(e)) | None
NestedReturned(tag, err, nested, decoded) ==
    [tag |-> tag, err |-> err, nested |-> nested, decoded |-> decoded]

\* Iterator::next of the nested iterator: More pulls the next page within the
\* same call
RECURSIVE NestedIter_next(_, _, _)
NestedIter_match(maybe_state, levels, c) ==
    CASE maybe_state.tag = "Some" ->
            [st |-> maybe_state.st,
             ret |-> NestedReturned("Some", "", maybe_state.item.nested,
                                    maybe_state.item.decoded)]
      [] maybe_state.tag = "Err" ->
            [st |-> maybe_state.st,
             ret |-> NestedReturned("Err", maybe_state.err, <<>>, primitive_with_capacity)]
      [] maybe_state.tag = "None" ->
            [st |-> maybe_state.st,
             ret |-> NestedReturned("None", "", <<>>, primitive_with_capacity)]
      [] maybe_state.tag = "More" -> NestedIter_next(maybe_state.st, levels, c)
      [] OTHER ->
            [st |-> maybe_state.st,
             ret |-> NestedReturned("Panic", "", <<>>, primitive_with_capacity)]

NestedIter_next(st, levels, c) == NestedIter_match(next(st, levels, c), levels, c)

(***************************************************************************)
(* The nested columns of the model: an InitNested, and pages of (rep, def) *)
(* pairs with the plain i32 values of the pairs at the maximum definition  *)
(* level.                                                                  *)
(***************************************************************************)
Reps(pairs) == [i \in DOMAIN pairs |-> pairs[i][1]]

Defs(pairs) == [i \in DOMAIN pairs |-> pairs[i][2]]

NestedDataPage(pairs, values, max_rep_level, max_def_level) ==
    DataPage("Plain", NoDict, "Optional", Len(pairs), hybrid_rle_encode(Reps(pairs)),
             hybrid_rle_encode(Defs(pairs)),
             Flatten([i \in DOMAIN values |-> to_le_bytes(values[i], 4)]),
             max_rep_level, max_def_level)

\* list<i32?>?: def 0 a null list, 1 an empty list, 2 a null item, 3 an item
ListOfInt == <<InitLevel("List", TRUE), InitLevel("Primitive", TRUE)>>

\* struct<x: i32?>?
StructOfInt == <<InitLevel("Struct", TRUE), InitLevel("Primitive", TRUE)>>

\* list<list<i32?>?>, the outer list required or nullable
ListOfList(nullable) ==
    <<InitLevel("List", nullable), InitLevel("List", TRUE), InitLevel("Primitive", TRUE)>>

\* the rows [1, 2], null, [], [null, 3]
ListPageA ==
    NestedDataPage(<<<<0, 3>>, <<1, 3>>, <<0, 0>>, <<0, 1>>, <<0, 2>>, <<1, 3>>>>,
                   <<1, 2, 3>>, 1, 3)

\* the row [4]
ListPageB == NestedDataPage(<<<<0, 3>>>>, <<4>>, 1, 3)

\* the rows null, [5, 6]
ListPageC == NestedDataPage(<<<<0, 0>>, <<0, 3>>, <<1, 3>>>>, <<5, 6>>, 1, 3)

\* the rows [7], [8], [9], [10], [11]
ListPageD ==
    NestedDataPage(<<<<0, 3>>, <<0, 3>>, <<0, 3>>, <<0, 3>>, <<0, 3>>>>,
                   <<7, 8, 9, 10, 11>>, 1, 3)

\* the levels (0,0), (0,1), (0,2) with the value 42
StructPage == NestedDataPage(<<<<0, 0>>, <<0, 1>>, <<0, 2>>>>, <<42>>, 0, 2)

\* the stripe (0,3), (1,3), (0,0), (0,2), (1,3) with the values v0, v1, v2
StripeV == <<10, 11, 12>>

StripePage ==
    NestedDataPage(<<<<0, 3>>, <<1, 3>>, <<0, 0>>, <<0, 2>>, <<1, 3>>>>, StripeV, 2, 3)

NestedPulls(levels) ==
    CASE levels = ListOfInt ->
            {PullOk(ListPageA), PullOk(ListPageB), PullOk(ListPageC), PullOk(ListPageD),
             PullErr("Io"),
             PullOk([ListPageB EXCEPT !.encoding = "DeltaBinaryPacked"])}
      [] levels = StructOfInt -> {PullOk(StructPage)}
      [] OTHER -> {PullOk(StripePage)}

\* the nested iterator over the pages of one column
NestedNew ==
    /\ NoIpc
    /\ debug_assertions \in BOOLEAN
    /\ init \in {ListOfInt, StructOfInt, ListOfList(FALSE), ListOfList(TRUE)}
    /\ source \in SeqsUpTo(NestedPulls(init), MaxPages)
    /\ iter = source
    /\ chunk_size \in 1..MaxChunkSize
    /\ items = <<>>
    /\ nested_items = <<>>
    /\ returned = <<>>
    /\ aborted = FALSE
    /\ page_state = <<>>

NestedNextDone(r) ==
    /\ iter' = r.st.iter
    /\ items' = r.st.items
    /\ nested_items' = r.st.nested_items
    /\ aborted' = r.st.aborted
    /\ returned' = Append(returned, r.ret)
    /\ UNCHANGED <<debug_assertions, source, chunk_size, init, page_state>>
    /\ UNCHANGED ipc_vars

\* one call of next() of the nested iterator
NestedNext ==
    /\ ~aborted
    /\ NonesReturned < MaxNone
    /\ NestedNextDone(NestedIter_next([iter |-> iter, items |-> items,
                                       nested_items |-> nested_items,
                                       aborted |-> FALSE],
                                      init, chunk_size))

NestedSpec == NestedNew /\ [][NestedNext]_vars

(***************************************************************************)
(* Claims about the nested reassembly.                                     *)
(***************************************************************************)
\* every pull of the source yields a page and the leaf decoder accepts it
ErrorFree ==
    \A k \in DOMAIN source : source[k].err = "" /\ source[k].page.encoding = "Plain"

\* the (rep, def) pairs of all pages, in page order
AllPairs == Flatten([k \in DOMAIN source |-> NestedPage(source[k].page)])

\* the pairs that start a top-level row
RowStarts(pairs) == SelectSeq(pairs, LAMBDA pair : pair[1] = 0)

\* the NestedStates returned so far, in order
ReturnedStates ==
    [i \in DOMAIN SelectSeq(returned, LAMBDA r : r.tag = "Some") |->
        SelectSeq(returned, LAMBDA r : r.tag = "Some")[i].nested]

RowsReturned == SumSeq([i \in DOMAIN ReturnedStates |-> NestedState_len(ReturnedStates[i])])

\* the validity the outermost layers hand out, row after row
OuterValidity ==
    Flatten([i \in DOMAIN ReturnedStates |-> inner(ReturnedStates[i][1]).validity.bits])

ReturnedNoneLast == returned # <<>> /\ returned[Len(returned)].tag = "None"

\* C14: over an error-free finite page sequence the nested next never unwinds,
\* the rows of the returned NestedStates are the rows of the pages in page order
\* (for a nullable outer list: the null rows are the rows whose first pair has
\* def = 0), and once None is returned their number is the number of pairs with
\* rep = 0 of all pages.
C14_RowsInPageOrder ==
    (ErrorFree /\ init = ListOfInt) =>
        /\ ~aborted
        /\ RowsReturned <= Len(RowStarts(AllPairs))
        /\ OuterValidity =
               [i \in 1..RowsReturned |-> IF RowStarts(AllPairs)[i][2] = 0 THEN 0 ELSE 1]
        /\ ReturnedNoneLast => RowsReturned = Len(RowStarts(AllPairs))

\* two error-free pages were pulled by one call of next(), which unwound: the
\* rows of both pages are lost
C14_Witness ==
    /\ ErrorFree
    /\ init = ListOfInt
    /\ Len(source) = 2
    /\ aborted
    /\ returned = <<NestedReturned("Panic", "", <<>>, primitive_with_capacity)>>

\* C15: over a finite page source the calls of next() never unwind, return at
\* most one chunk per (rep, def) pair, and once None is returned every later call
\* returns None with nothing left pending: the trailing chunk was handed out
\* before.
C15_Terminates ==
    ErrorFree =>
        /\ ~aborted
        /\ Len(ReturnedStates) <= Len(AllPairs)
        /\ \A i, j \in DOMAIN returned :
               (i < j /\ returned[i].tag = "None") => returned[j].tag = "None"
        /\ ReturnedNoneLast => (iter = <<>> /\ items = <<>> /\ nested_items = <<>>)

\* a source of two pages ended in an unwinding after one chunk, not in None
C15_Witness ==
    /\ ErrorFree
    /\ Len(source) = 2
    /\ iter = <<>>
    /\ aborted
    /\ Len(returned) = 2
    /\ returned[1].tag = "Some"
    /\ returned[2].tag = "Panic"

\* C19: the nullable struct<x: i32?> with the levels (0,0), (0,1), (0,2) and the
\* value 42 comes back as three rows: the struct layer hands out the validity
\* null, valid, valid, and the leaf holds a slot per row, null in row 2 and 42 in
\* row 3.
C19_StructRows ==
    (init = StructOfInt /\ source = <<PullOk(StructPage)>> /\ chunk_size >= 3
     /\ returned # <<>>) =>
        /\ returned[1].tag = "Some"
        /\ NestedState_len(returned[1].nested) = 3
        /\ inner(returned[1].nested[1]).validity = [present |-> TRUE, bits |-> <<0, 1, 1>>]
        /\ Len(returned[1].decoded.values) = 3
        /\ returned[1].decoded.validity[2] = 0
        /\ returned[1].decoded.validity[3] = 1
        /\ returned[1].decoded.values[3] = 42

\* the page was reassembled: three struct rows without validity, two leaf slots
C19_Witness ==
    /\ init = StructOfInt /\ source = <<PullOk(StructPage)>> /\ chunk_size >= 3
    /\ Len(returned) = 1
    /\ returned[1].tag = "Some"
    /\ NestedState_len(returned[1].nested) = 3
    /\ ~inner(returned[1].nested[1]).validity.present
    /\ returned[1].decoded = [values |-> <<0, 42>>, validity |-> <<0, 1>>]

ExampleWritten ==
    /\ columns # <<>>
    /\ columns[1] = I32a
    /\ is_little_endian
    /\ compression = "None"

\* C23 as stated: the buffer table is [{0, 1}, {8, 12}] and the body begins with
\* the bytes 01 00 00 00 00 00 00 00 03 00 00 00.
C23_ExampleAsStated ==
    ExampleWritten =>
        /\ Take(buffers, 2) = <<[offset |-> 0, length |-> 1], [offset |-> 8, length |-> 12]>>
        /\ Take(arrow_data, 12) = <<1, 0, 0, 0, 0, 0, 0, 0, 3, 0, 0, 0>>

\* C23 as amended: the buffer table is [{0, 1}, {8, 12}] and the body begins with
\* the validity byte 05 padded to 8 bytes, then the three values 1, -2, 3 as
\* little-endian i32 padded to 16 bytes: the writer's running offset is 24.
C23_Example ==
    ExampleWritten =>
        /\ Take(buffers, 2) = <<[offset |-> 0, length |-> 1], [offset |-> 8, length |-> 12]>>
        /\ Take(arrow_data, 24) = <<5, 0, 0, 0, 0, 0, 0, 0,
                                    1, 0, 0, 0, 254, 255, 255, 255, 3, 0, 0, 0, 0, 0, 0, 0>>
        /\ Len(columns) = 1 => (offset = 24 /\ Len(arrow_data) = 24 /\ Len(buffers) = 2)

\* the example written on a build of either byte order
C23_Witness ==
    /\ ExampleWritten
    /\ Len(columns) = 1
    /\ ~panicked
    /\ Len(arrow_data) = 24

(***************************************************************************)
(* The dictionary protocol of a stream.  A dictionary batch is a record of *)
(* its own that carries the values of a dictionary under an id: the writer *)
(* emits it with write_dictionary(.., write_keys = false) into fresh       *)
(* outputs, the reader reads the values back with `read` and registers     *)
(* them in its Dictionaries map.  The batches of a stream precede the      *)
(* records whose columns refer to them.  The reader's handling of a batch  *)
(* (read/common.rs) and compute::concatenate follow the specification.     *)
(***************************************************************************)
MaxBatches == 2

\* ["z", null]
KeyZ == Bin(Utf8T, <<0, 1, 1>>, <<122>>, Valid(<<1, 0>>))

DictIds == {7, 9}

\* DictionaryArray<i8> with the given id, values and keys
Dictionary(id, values, keys, validity) ==
    ArrayOf(DictionaryT(1, values.data_type, id), Len(keys), validity, keys, NoBitmap,
            <<>>, <<>>, <<values>>)

\* the dictionary arrays whose values the writer emits as dictionary batches
DictArrays == {Dictionary(id, values, <<0>>, NoBitmap) : id \in DictIds, values \in {KeyVals, KeyZ}}

\* the dictionary-typed columns of the records that follow the batches
DictColumns == {DictA, Dictionary(9, KeyZ, <<0, 0>>, Valid(<<1, 0>>))}

\* the validity of a concatenation: absent when both are absent
concatenate_validity(a, b) ==
    IF ~a.validity.present /\ ~b.validity.present THEN NoBitmap
    ELSE from_trusted_len_iter(
             (IF a.validity.present THEN bitmap_iter(a.validity) ELSE [i \in 1..a.length |-> 1])
             \o (IF b.validity.present THEN bitmap_iter(b.validity) ELSE [i \in 1..b.length |-> 1]))

\* compute::concatenate of two Binary or Utf8 arrays
concatenate(a, b) ==
    [a EXCEPT !.length = a.length + b.length,
              !.validity = concatenate_validity(a, b),
              !.values = SubSeq(a.values, First(a) + 1, Last(a))
                         \o SubSeq(b.values, First(b) + 1, Last(b)),
              !.offsets = [i \in 1..(a.length + 1) |-> a.offsets[i] - First(a)]
                          \o [i \in 1..b.length |->
                                 b.offsets[i + 1] - First(b) + Last(a) - First(a)]]

\* the map with `values` under `id`
insert(map, id, values) ==
    [k \in DOMAIN map \cup {id} |-> IF k = id THEN values ELSE map[k]]

\* The reader's handling of a dictionary batch whose values it has read: a delta
\* batch appends to the entry of its id, any other batch replaces it.
register(map, id, is_delta, values) ==
    IF is_delta
    THEN IF id \in DOMAIN map
         THEN [ok |-> TRUE, err |-> "", values |-> values,
               map |-> [map EXCEPT ![id] = concatenate(@, values)]]
         ELSE [ok |-> FALSE, err |-> "MissingDictionary", values |-> values, map |-> map]
    ELSE [ok |-> TRUE, err |-> "", values |-> values, map |-> insert(map, id, values)]

\* the record of a dictionary batch as the reader receives it: the queues and
\* the stream with the body at block_offset
BatchQueues(w) == [field_nodes |-> w.nodes, buffers |-> w.buffers, pos |-> 0]

BatchCx(w) ==
    [reader |-> [i \in 1..block_offset |-> 255] \o w.arrow_data, dictionaries |-> dictionaries,
     block_offset |-> block_offset, is_little_endian |-> is_little_endian,
     compression |-> compression]

\* the values read are registered; an error of read propagates
registered(r, id, is_delta) ==
    IF ~r.ok THEN [ok |-> FALSE, err |-> r.err, values |-> r.array, map |-> dictionaries]
    ELSE register(dictionaries, id, is_delta, r.array)

\* the reader's side of a dictionary batch: read the one column, then register
read_batch(w, array, is_delta) ==
    registered(read(BatchQueues(w), array.fields[1].data_type, BatchCx(w)),
               array.data_type.id, is_delta)

BatchAborted ==
    /\ panicked' = TRUE
    /\ UNCHANGED <<native_le, is_little_endian, compression, buffers, arrow_data, nodes,
                   offset, log, columns, phase, field_nodes, rbuffers, reader, reader_pos,
                   dictionaries, next_col, last, dictionary_batches>>
    /\ UNCHANGED decoder_vars

BatchDone(array, is_delta, g) ==
    /\ dictionaries' = g.map
    /\ dictionary_batches' = Append(dictionary_batches,
                                    [id |-> array.data_type.id, is_delta |-> is_delta,
                                     values |-> array.fields[1], ok |-> g.ok, err |-> g.err,
                                     read |-> g.values])
    /\ phase' = IF g.ok THEN phase ELSE "failed"
    /\ UNCHANGED <<native_le, is_little_endian, compression, buffers, arrow_data, nodes,
                   offset, panicked, log, columns, field_nodes, rbuffers, reader, reader_pos,
                   next_col, last>>
    /\ UNCHANGED decoder_vars

BatchWritten(array, is_delta, w) ==
    IF w.panicked THEN BatchAborted ELSE BatchDone(array, is_delta, read_batch(w, array, is_delta))

\* One dictionary batch: write_dictionary(array, .., write_keys = false) into the
\* outputs of a record of its own, and the reader's handling of that record.
DictionaryBatch(array, is_delta) ==
    /\ phase = "write"
    /\ ~panicked
    /\ columns = <<>>
    /\ Len(dictionary_batches) < MaxBatches
    /\ BatchWritten(array, is_delta,
                    write_dictionary(array, EmptyWriter, <<0>>, is_little_endian, compression,
                                     FALSE))

\* a stream that opens with no dictionary registered
DictInit ==
    /\ native_le \in BOOLEAN
    /\ is_little_endian \in BOOLEAN
    /\ compression \in {"None", "LZ4", "ZSTD"}
    /\ buffers = <<>>
    /\ arrow_data = <<>>
    /\ nodes = <<>>
    /\ offset = 0
    /\ panicked = FALSE
    /\ log = <<>>
    /\ columns = <<>>
    /\ phase = "write"
    /\ field_nodes = <<>>
    /\ rbuffers = <<>>
    /\ reader = <<>>
    /\ reader_pos = 0
    /\ dictionaries = <<>>
    /\ next_col = 1
    /\ last = NoLast
    /\ dictionary_batches = <<>>
    /\ NoDecoder

DictNext ==
    \/ \E array \in DictArrays, is_delta \in BOOLEAN : DictionaryBatch(array, is_delta)
    \/ \E array \in DictColumns : Write(array)
    \/ Queue
    \/ Read

DictSpec == DictInit /\ [][DictNext]_vars

(***************************************************************************)
(* C21: read of a Dictionary-typed field whose dictionary id is not in the *)
(* reader's dictionaries returns the MissingDictionary error and no array. *)
(***************************************************************************)
\* the last operation was read of a dictionary column whose id is not registered
ReadUnregistered ==
    /\ last.op = "read"
    /\ columns[last.col].data_type.kind = "Dictionary"
    /\ columns[last.col].data_type.id \notin DOMAIN dictionaries

C21_MissingDictionary ==
    ReadUnregistered =>
        /\ ~last.ok
        /\ last.err = "MissingDictionary"
        /\ last.array = EmptyArray

\* the id is unknown although another id is registered, on a record that was
\* written compressed
C21_Witness ==
    /\ ReadUnregistered
    /\ DOMAIN dictionaries # {}
    /\ compression # "None"
    /\ last.err = "MissingDictionary"

(***************************************************************************)
(* C22: after any sequence of dictionary batches the reader's map holds    *)
(* under each id the values of the last non-delta batch for that id,       *)
(* followed in arrival order by the values of every later delta batch for  *)
(* that id; a batch for one id leaves the entries of the other ids as they *)
(* were.                                                                   *)
(***************************************************************************)
\* the rows the batches 1..n let the reader hold under id
RECURSIVE Replay(_, _)
Replay(n, id) ==
    IF n = 0 THEN [present |-> FALSE, rows |-> <<>>]
    ELSE LET b == dictionary_batches[n]
             before == Replay(n - 1, id)
         IN  IF b.id # id \/ (b.is_delta /\ ~before.present) THEN before
             ELSE IF b.is_delta
                  THEN [present |-> TRUE, rows |-> before.rows \o Logical(b.values)]
                  ELSE [present |-> TRUE, rows |-> Logical(b.values)]

\* every batch is accepted unless it is a delta for an id with no entry, and
\* the reader reads of it the values the writer was given
BatchesAccepted ==
    \A n \in DOMAIN dictionary_batches :
        LET b == dictionary_batches[n]
        IN  /\ b.ok <=> (~b.is_delta \/ Replay(n - 1, b.id).present)
            /\ b.read.data_type = b.values.data_type
            /\ Logical(b.read) = Logical(b.values)
            /\ Nulls(b.read) = Nulls(b.values)

MapHoldsReplay ==
    \A id \in DictIds :
        LET e == Replay(Len(dictionary_batches), id)
        IN  /\ id \in DOMAIN dictionaries <=> e.present
            /\ e.present =>
                  /\ Logical(dictionaries[id]) = e.rows
                  /\ dictionaries[id].length = Len(e.rows)
                  /\ dictionaries[id].data_type = Utf8T

OtherIdsUntouched ==
    Len(dictionary_batches') > Len(dictionary_batches) =>
        \A id \in DictIds \ {dictionary_batches'[Len(dictionary_batches')].id} :
            /\ id \in DOMAIN dictionaries' <=> id \in DOMAIN dictionaries
            /\ id \in DOMAIN dictionaries => dictionaries'[id] = dictionaries[id]

C22_DictionaryReplay ==
    /\ [](DOMAIN dictionaries \subseteq DictIds /\ BatchesAccepted /\ MapHoldsReplay)
    /\ [][OtherIdsUntouched]_vars

\* a delta batch with a null among its values was appended to the entry that a
\* non-delta batch had set, both read from compressed records
C22_Witness ==
    /\ Len(dictionary_batches) = MaxBatches
    /\ dictionary_batches[Len(dictionary_batches)].is_delta
    /\ dictionary_batches[Len(dictionary_batches)].ok
    /\ dictionary_batches[Len(dictionary_batches)].values = KeyZ
    /\ dictionaries[dictionary_batches[Len(dictionary_batches)].id].length >= 4
    /\ compression # "None"

(***************************************************************************)
(* Claims about the chunking of the nested reassembly.                     *)
(***************************************************************************)
\* the first page of the source was pulled by a call of next()
FirstPagePulled ==
    /\ source # <<>>
    /\ source[1].err = ""
    /\ Len(iter) < Len(source)

FirstPage == NestedPage(source[1].page)

\* the call of extend_offsets2 that extend_offsets1 makes on the first page:
\* a fresh NestedState and the capacity chunk_size
FirstChunk ==
    extend_offsets2([page |-> FirstPage, nested |-> init_nested(init)], chunk_size, 0)

\* C24: one call of extend_offsets2 with the capacity `additional` on a page of
\* more than `additional` rows adds exactly `additional` rows to the NestedState;
\* the pair with rep = 0 that starts the next row is peeked only and is the first
\* pair the page yields to the next chunk.
C24_AdditionalRows ==
    (FirstPagePulled /\ Len(RowStarts(FirstPage)) > chunk_size) =>
        /\ NestedState_len(FirstChunk.nested) = chunk_size
        /\ FirstChunk.page # <<>>
        /\ FirstChunk.page[1][1] = 0
        /\ Len(RowStarts(FirstChunk.page)) = Len(RowStarts(FirstPage)) - chunk_size

\* the call added chunk_size + 1 rows, and next() returned that NestedState
C24_Witness ==
    /\ FirstPagePulled
    /\ Len(RowStarts(FirstPage)) > chunk_size + 1
    /\ NestedState_len(FirstChunk.nested) = chunk_size + 1
    /\ Len(RowStarts(FirstChunk.page)) = Len(RowStarts(FirstPage)) - chunk_size - 1
    /\ returned[1].tag = "Some"
    /\ returned[1].nested = FirstChunk.nested

\* C25: every NestedState that next() returns holds at most chunk_size rows, and
\* one that holds fewer is returned only when the page source is exhausted.
C25_ChunkRows ==
    [][\A i \in DOMAIN returned' :
          (i > Len(returned) /\ returned'[i].tag = "Some") =>
              /\ NestedState_len(returned'[i].nested) <= chunk_size
              /\ NestedState_len(returned'[i].nested) < chunk_size => iter' = <<>>]_vars

\* a NestedState of chunk_size + 1 rows was returned while pages were left
C25_Witness ==
    /\ returned # <<>>
    /\ returned[1].tag = "Some"
    /\ NestedState_len(returned[1].nested) = chunk_size + 1
    /\ iter # <<>>
    /\ ~aborted

\* between two calls of next(): the next call pulls a page and resumes the
\* buffered NestedState and decoded state on it
ResumesOnNewPage ==
    /\ ~aborted
    /\ nested_items # <<>>
    /\ Len(items) = 1
    /\ iter # <<>>
    /\ Head(iter).err = ""
    /\ primitive_build_state(Head(iter).page).ok

\* the NestedStates after extend_offsets1 of the next call
ExtendedOnNewPage ==
    extend_offsets1(NestedPage(Head(iter).page), init, nested_items, chunk_size).items

\* C26: whenever next() resumes a buffered partial chunk on a new page, the
\* resumed NestedState holds fewer than chunk_size rows, and the resumed decoded
\* state holds fewer values than the NestedState at the back requires after
\* extend_offsets1: the conditions of both debug assertions hold.
C26_ResumeAssertions ==
    ResumesOnNewPage =>
        /\ NestedState_len(Back(nested_items)) < chunk_size
        /\ primitive_len(Back(items)) < NestedState_num_values(Back(ExtendedOnNewPage))

\* the buffered NestedState holds fewer than chunk_size rows, yet the new page
\* leaves at the back a NestedState that requires no more values than the
\* buffered decoded state holds: the second debug assertion fails
C26_Witness ==
    /\ ResumesOnNewPage
    /\ init = ListOfInt
    /\ NestedState_len(Back(nested_items)) < chunk_size
    /\ Len(ExtendedOnNewPage) > 1
    /\ primitive_len(Back(items)) >= NestedState_num_values(Back(ExtendedOnNewPage))

\* the buffered NestedState holds chunk_size + 1 rows when the next page is
\* pulled: the first debug assertion fails, and chunk_size - rows underflows
C26_WitnessRows ==
    /\ ResumesOnNewPage
    /\ init = ListOfInt
    /\ NestedState_len(Back(nested_items)) = chunk_size + 1

\* C27: over error-free pages, the i-th decoded state holds as many leaf values
\* as the i-th NestedState's num_values(), in the queues between calls and in
\* every pair that next() returns.
C27_ValuesMatchNested ==
    (ErrorFree /\ ~aborted) =>
        /\ \A i \in 1..Min(Len(items), Len(nested_items)) :
              primitive_len(items[i]) = NestedState_num_values(nested_items[i])
        /\ \A i \in DOMAIN returned :
              returned[i].tag = "Some" =>
                  primitive_len(returned[i].decoded)
                      = NestedState_num_values(returned[i].nested)

\* a debug build returned, without unwinding, a NestedState of a list column
\* that requires more leaf values than the decoded state returned with it holds
C27_Witness ==
    /\ ErrorFree
    /\ ~aborted
    /\ debug_assertions
    /\ init = ListOfInt
    /\ returned # <<>>
    /\ returned[1].tag = "Some"
    /\ primitive_len(returned[1].decoded) < NestedState_num_values(returned[1].nested)

\* C28: between calls of next(), also after a call that returned an error of the
\* page source or of build_state, the queue of NestedStates and the queue of
\* decoded states hold the same number of entries.
C28_QueuesInStep ==
    ~aborted => Len(items) = Len(nested_items)

\* build_state refused a page after extend_offsets1 had queued its NestedStates:
\* the error was returned and the decoded queue is shorter
C28_Witness ==
    /\ ~aborted
    /\ returned # <<>>
    /\ returned[Len(returned)].tag = "Err"
    /\ returned[Len(returned)].err = not_implemented
    /\ Len(nested_items) > Len(items)

\* the call after the error found the page source exhausted, popped a
\* NestedState and unwound at items.pop_front().unwrap()
C28_WitnessLaterCall ==
    /\ aborted
    /\ Len(returned) >= 2
    /\ returned[Len(returned) - 1].tag = "Err"
    /\ returned[Len(returned)].tag = "Panic"
    /\ items = <<>>

(***************************************************************************)
(* Claims about the pushes of extend_offsets2, read off the first call on  *)
(* the first page: a fresh NestedState and the pairs in page order.        *)
(***************************************************************************)
\* the pairs the first call of extend_offsets2 takes from the page
FirstChunkPairs == Take(FirstPage, Len(FirstPage) - Len(FirstChunk.page))

\* the NestedState of the first call after its first k pairs
RECURSIVE Pushed(_)
Pushed(k) ==
    IF k = 0 THEN init_nested(init)
    ELSE push_pair(Pushed(k - 1), FirstChunkPairs[k][1], FirstChunkPairs[k][2])

\* cum_sum over the declared nullability of the InitNested: 2 for each layer
\* above that is declared nullable, else 1
RECURSIVE declared_cum_sum(_)
declared_cum_sum(d) ==
    IF d = 1 THEN 0
    ELSE declared_cum_sum(d - 1) + (IF init[d - 1].is_nullable THEN 2 ELSE 1)

\* layer d received an entry from the k-th pair
PushedInto(d, k) == Nested_len(Pushed(k)[d]) = Nested_len(Pushed(k - 1)[d]) + 1

Untouched(d, k) == Pushed(k)[d] = Pushed(k - 1)[d]

\* the entries the layer below d held before the k-th pair; for the leaf its own
ChildCountBefore(d, k) ==
    IF d < Len(init) THEN Nested_len(Pushed(k - 1)[d + 1]) ELSE Nested_len(Pushed(k - 1)[d])

\* C29: with cum_sum over the declared nullability, the k-th pair (rep, def)
\* pushes one entry into layer d exactly when d >= rep and def >= cum_sum[d]
\* (depths counted from 0), and the length pushed into a List layer is the
\* number of entries the layer below held before the pair.
C29_PushRule ==
    FirstPagePulled =>
        \A k \in DOMAIN FirstChunkPairs : \A d \in DOMAIN init :
            IF d - 1 >= FirstChunkPairs[k][1] /\ FirstChunkPairs[k][2] >= declared_cum_sum(d)
            THEN /\ PushedInto(d, k)
                 /\ init[d].kind = "List" =>
                       Pushed(k)[d].offsets
                           = Append(Pushed(k - 1)[d].offsets, ChildCountBefore(d, k))
            ELSE Untouched(d, k)

\* under a struct declared nullable the leaf received an entry from a pair
\* whose def is below the declared threshold 2
C29_Witness ==
    /\ FirstPagePulled
    /\ init = StructOfInt
    /\ \E k \in DOMAIN FirstChunkPairs :
          /\ FirstChunkPairs[k][2] < declared_cum_sum(2)
          /\ PushedInto(2, k)
    /\ returned[1].tag = "Some"
    /\ returned[1].nested = Pushed(Len(FirstChunkPairs))

\* the layers that keep a validity bit per entry
KeepsValidity(d) == init[d].kind \in {"List", "Struct"} /\ init[d].is_nullable

\* the validity bit the k-th pair pushed into layer d
LastBit(d, k) == Pushed(k)[d].validity[Len(Pushed(k)[d].validity)]

\* C30: for every List or Struct layer d declared nullable, the validity bit
\* that a pair (rep, def) pushes is false when def = cum_sum[d] and true when
\* def > cum_sum[d].
C30_ValidityBit ==
    FirstPagePulled =>
        \A k \in DOMAIN FirstChunkPairs : \A d \in DOMAIN init :
            (KeepsValidity(d) /\ PushedInto(d, k)) =>
                /\ Len(Pushed(k)[d].validity) = Len(Pushed(k - 1)[d].validity) + 1
                /\ FirstChunkPairs[k][2] = declared_cum_sum(d) => LastBit(d, k) = 0
                /\ FirstChunkPairs[k][2] > declared_cum_sum(d) => LastBit(d, k) = 1

\* the struct layer of a struct declared nullable recorded a null slot for a
\* pair whose def exceeds the layer's threshold 0
C30_Witness ==
    /\ FirstPagePulled
    /\ init = StructOfInt
    /\ \E k \in DOMAIN FirstChunkPairs :
          /\ FirstChunkPairs[k][2] > declared_cum_sum(1)
          /\ PushedInto(1, k)
          /\ LastBit(1, k) = 0
    /\ returned[1].tag = "Some"
    /\ returned[1].nested[1].validity = <<0, 0, 0>>

(***************************************************************************)
(* C31: the leaf count of a NestedState against the definition levels of   *)
(* the pairs processed, read off the first call of extend_offsets2.        *)
(***************************************************************************)
\* the state right after the call of next() that pulled the first page
AfterFirstCall == FirstPagePulled /\ Len(returned) = 1

\* the pairs among the first k whose definition level satisfies P
DefsAmong(k, P(_)) == Cardinality({j \in 1..k : P(FirstChunkPairs[j][2])})

\* the definition level from which on a pair holds a leaf slot: over the
\* layers above the leaf, 2 for a nullable List and 1 for any other layer
RECURSIVE leaf_threshold(_)
leaf_threshold(d) ==
    IF d = 1 THEN 0
    ELSE leaf_threshold(d - 1)
         + (IF init[d - 1].kind = "List" /\ init[d - 1].is_nullable THEN 2 ELSE 1)

\* C31 as stated: after any number of pairs, num_values() of the NestedState is
\* the number of processed pairs whose definition level is max_def.
C31_LeafCountAsStated ==
    AfterFirstCall =>
        \A k \in 0..Len(FirstChunkPairs) :
            NestedState_num_values(Pushed(k))
                = DefsAmong(k, LAMBDA def : def = source[1].page.max_def_level)

\* C31 as amended: after any number of pairs, num_values() of the NestedState is
\* the number of processed pairs whose definition level reaches the threshold of
\* the leaf layer: the null leaf slots (max_def - 1 under list layers with a
\* nullable leaf) are counted with the values (max_def).
C31_LeafCount ==
    AfterFirstCall =>
        \A k \in 0..Len(FirstChunkPairs) :
            NestedState_num_values(Pushed(k))
                = DefsAmong(k, LAMBDA def : def >= leaf_threshold(Len(init)))

\* a page of a list column with a null item was processed whole and returned:
\* the leaf count is 4, of which 3 pairs are at max_def
C31_Witness ==
    /\ AfterFirstCall
    /\ init = ListOfInt
    /\ source[1].page = ListPageA
    /\ FirstChunk.page = <<>>
    /\ returned[1].tag = "Some"
    /\ returned[1].nested = Pushed(Len(FirstChunkPairs))
    /\ NestedState_num_values(returned[1].nested) = 4
    /\ DefsAmong(Len(FirstChunkPairs), LAMBDA def : def = 3) = 3

(***************************************************************************)
(* Claims about the optional decoding of the leaf values.                  *)
(***************************************************************************)
\* the NestedStates after extend_offsets1 on the first page
FirstNested == extend_offsets1(FirstPage, init, <<>>, chunk_size)

FirstState == primitive_build_state(source[1].page).state

\* the call of read_optional_values that extend_from_new_page makes on the
\* first page: an empty decoded state and num_values() of the last NestedState
FirstRead ==
    read_optional_values([state |-> FirstState, decoded |-> primitive_with_capacity,
                          panicked |-> FALSE],
                         NestedState_num_values(Back(FirstNested.items)))

FirstReadMade ==
    /\ FirstPagePulled
    /\ ~FirstNested.panicked
    /\ primitive_build_state(source[1].page).ok
    /\ FirstState.kind = "Optional"

\* the definition levels that the call r consumed
Consumed(r) ==
    Take(FirstState.def_levels, Len(FirstState.def_levels) - Len(r.state.def_levels))

\* the number of levels among the first k of levels that satisfy P
LevelsAmong(levels, k, P(_)) == Cardinality({j \in 1..k : P(levels[j])})

\* the j-th plain value of the page
PlainValue(j) == from_le_bytes(SubSeq(FirstState.values, 4 * j - 3, 4 * j))

AllLevels(levels, k) == k

SlotLevels(levels, k) == LevelsAmong(levels, k, LAMBDA def : def >= FirstState.max_def - 1)

PresentLevels(levels, k) == LevelsAmong(levels, k, LAMBDA def : def = FirstState.max_def)

\* the decoded state and the values iterator after the call when the k-th
\* consumed level pushed slot number Slots(k), a default if IsNull holds of it
DecodedBy(Slots(_, _), IsNull(_)) ==
    LET r == FirstRead
        levels == Consumed(r)
        max_def == FirstState.max_def
        slot(k) == [value |-> r.decoded.values[Slots(levels, k)],
                    valid |-> r.decoded.validity[Slots(levels, k)]]
    IN  /\ Len(r.decoded.values) = Slots(levels, Len(levels))
        /\ Len(r.decoded.validity) = Slots(levels, Len(levels))
        /\ \A k \in 1..Len(levels) :
              /\ levels[k] = max_def =>
                    slot(k) = [value |-> PlainValue(PresentLevels(levels, k)), valid |-> 1]
              /\ IsNull(levels[k]) => slot(k) = [value |-> 0, valid |-> 0]
              /\ (levels[k] # max_def /\ ~IsNull(levels[k])) =>
                    Slots(levels, k) = Slots(levels, k - 1)
        /\ r.state.values = Drop(FirstState.values, 4 * PresentLevels(levels, Len(levels)))

\* C32 as stated: every consumed level below max_def pushes one default value
\* with validity false.
C32_OptionalLevelsAsStated ==
    FirstReadMade =>
        DecodedBy(AllLevels, LAMBDA def : def < FirstState.max_def)

\* C32: in read_optional_values a level equal to max_def pushes the next value
\* of the values iterator with validity true, a level equal to max_def - 1
\* pushes one default value with validity false, any lower level pushes
\* nothing, and the values iterator advances only on levels equal to max_def.
C32_OptionalLevels ==
    FirstReadMade =>
        DecodedBy(SlotLevels, LAMBDA def : def = FirstState.max_def - 1)

\* next() returned the decoded state of a call that consumed a level below
\* max_def - 1, a level at max_def - 1 and levels at max_def
C32_Witness ==
    /\ FirstReadMade
    /\ init = ListOfInt
    /\ returned # <<>>
    /\ returned[1].tag = "Some"
    /\ returned[1].decoded = FirstRead.decoded
    /\ \E k \in 1..Len(Consumed(FirstRead)) : Consumed(FirstRead)[k] < FirstState.max_def - 1
    /\ \E k \in 1..Len(Consumed(FirstRead)) : Consumed(FirstRead)[k] = FirstState.max_def - 1
    /\ FirstRead.decoded.validity = <<1, 1, 0, 1>>
    /\ FirstRead.decoded.values = <<1, 2, 0, 3>>

(***************************************************************************)
(* Claims about the Required page state.                                   *)
(***************************************************************************)
\* the calls of extend_from_state on a Required state that were handed more
\* than the page had left
Overdrawn ==
    {i \in DOMAIN returned : /\ returned[i].before.kind = "Required"
                             /\ returned[i].additional > returned[i].before.remaining}

\* C33: extend_from_state on a Required state with `additional` above the
\* number of values left pushes exactly the values left and leaves `remaining`
\* at 0 without unwinding, so the page reports length 0 and is not asked again.
C33_RequiredSaturates ==
    \A i \in Overdrawn :
        /\ ~returned[i].panicked
        /\ DecodedState_len(returned[i].decoded) = returned[i].before.remaining
        /\ returned[i].after.remaining = 0
        /\ PageState_len(returned[i].after) = 0
        /\ i = Len(returned)

\* a release build: a page of 3 values was asked for 2 and 2 again, `remaining`
\* wrapped at the second call and the page, now without values, was asked again
C33_Witness ==
    /\ ~debug_assertions
    /\ chunk_size = 2
    /\ Len(returned) = 3
    /\ Overdrawn = {2}
    /\ returned[1].before.remaining = 3
    /\ returned[2].before.remaining = 1
    /\ returned[2].additional = 2
    /\ DecodedState_len(returned[2].decoded) = 1
    /\ returned[2].after.remaining = wrapping(1)
    /\ returned[2].after.values = <<>>
    /\ DecodedState_len(returned[3].decoded) = 0

\* a debug build: the call that was handed more than the page had left unwound
C33_WitnessDebug ==
    /\ debug_assertions
    /\ aborted
    /\ Len(returned) \in Overdrawn
    /\ returned[Len(returned)].panicked
    /\ DecodedState_len(returned[Len(returned)].decoded) = 0

(***************************************************************************)
(* Claims about the order in which the nested next hands out the chunks.   *)
(***************************************************************************)
\* the NestedState b is the NestedState a, possibly extended
NestedExtends(a, b) ==
    /\ Len(a) = Len(b)
    /\ \A d \in DOMAIN a :
          /\ IsPrefix(a[d].offsets, b[d].offsets)
          /\ IsPrefix(a[d].validity, b[d].validity)
          /\ a[d].length <= b[d].length

\* the decoded state b is the decoded state a, possibly extended
DecodedExtends(a, b) == IsPrefix(a.values, b.values) /\ IsPrefix(a.validity, b.validity)

\* a call with more than one decoded chunk buffered returns the head pair and
\* leaves the page source alone
HeadWithoutPull ==
    Len(items) > 1 =>
        /\ iter' = iter
        /\ returned' = Append(returned,
                              NestedReturned("Some", "", Head(nested_items), Head(items)))
        /\ items' = Tail(items)
        /\ nested_items' = Tail(nested_items)

PullsWhenAtMostOne == iter' # iter => Len(items) <= 1

\* the pair a call returns is made of the oldest buffered NestedState and the
\* oldest buffered decoded state, extended by the pages the call pulled
OldestFirst ==
    (Len(returned') = Len(returned) + 1 /\ returned'[Len(returned')].tag = "Some") =>
        /\ items # <<>> => DecodedExtends(Head(items), returned'[Len(returned')].decoded)
        /\ nested_items # <<>> =>
              NestedExtends(Head(nested_items), returned'[Len(returned')].nested)

\* C34: a call of the nested next with more than one chunk buffered returns the
\* head chunk without pulling from the page source; a page is pulled only when
\* at most one chunk is buffered; the chunk returned is the oldest buffered one.
C34_HeadFirst == [][HeadWithoutPull /\ PullsWhenAtMostOne /\ OldestFirst]_vars

\* a page of five rows decoded with chunk_size 1 left two chunks buffered after
\* the first call; the second call returned the older one with a page still
\* in the source
C34_Witness ==
    /\ ErrorFree
    /\ ~aborted
    /\ Len(source) = 2
    /\ source[1].page = ListPageD
    /\ chunk_size = 1
    /\ Len(iter) = 1
    /\ Len(returned) = 2
    /\ returned[1].tag = "Some"
    /\ returned[2].tag = "Some"
    /\ returned[2].decoded.values = <<8, 9>>
    /\ Len(items) = 1
    /\ items[1].values = <<10>>

(***************************************************************************)
(* Claims about the bytes of a bitmap and the layout of the buffer table.  *)
(***************************************************************************)
\* the present bitmaps handed to write_bitmap with the event of their write:
\* the validity is the first buffer of an array (but of a Null or Union one),
\* the values of a Boolean array are its second
BitmapWrites ==
    {<<OwnBuffers(k)[1], log[k].array.validity>> :
        k \in {j \in NodeEvents : /\ HasValidity(log[j].array)
                                  /\ log[j].array.validity.present
                                  /\ Len(OwnBuffers(j)) >= 1}}
    \cup {<<OwnBuffers(k)[2], log[k].array.bits>> :
            k \in {j \in NodeEvents : /\ log[j].array.data_type.kind = "Boolean"
                                      /\ Len(OwnBuffers(j)) >= 2}}

\* C35: the bytes written for a present bitmap of logical length L are, before
\* the compression framing, ceil(L/8) bytes whose bit i is the logical bit i
\* of the bitmap for every i < L, at bit offset 0 and at any other bit offset.
C35_BitmapBytes ==
    \A bw \in BitmapWrites :
        /\ bw[1].fn = "write_bytes"
        /\ Len(bw[1].raw) = (bw[2].length + 7) \div 8
        /\ \A i \in 0..(bw[2].length - 1) : BitOf(bw[1].raw, i) = bitmap_iter(bw[2])[i + 1]
        /\ compression = "None" =>
              /\ buffers[bw[1].idx].length = (bw[2].length + 7) \div 8
              /\ BodyOf(arrow_data, bw[1]) = bw[1].raw

\* bitmaps at the bit offsets 0, 1 and 8 have been written: the one at 1 was
\* repacked, the one at 8 is the second byte of its underlying bytes
C35_Witness ==
    /\ {bw[2].offset : bw \in BitmapWrites} = {0, 1, 8}
    /\ \E bw \in BitmapWrites :
          /\ bw[2].offset = 1
          /\ bw[1].raw # as_slice(bw[2]).slice
    /\ \E bw \in BitmapWrites :
          /\ bw[2].offset = 8
          /\ Len(bw[2].bytes) = 2
          /\ bw[1].raw = <<bw[2].bytes[2]>>

\* the length rounded up to a multiple of 8
Padded(length) == length + pad_to_8(length)

\* C36: after any sequence of write calls the running offset has grown by as
\* much as the body, over all the calls and over every single buffer write,
\* and the buffer records are contiguous: each record's offset is the previous
\* record's offset plus the previous length rounded up to a multiple of 8 (so
\* a zero-length absent-validity record shares its offset with the next
\* record), and the last record ends at the running offset.
C36_Contiguous ==
    /\ offset = Len(arrow_data)
    /\ \A k \in BufferEvents : OffsetAfter(k) - log[k].off = EndOf(k) - log[k].start
    /\ buffers # <<>> =>
          /\ buffers[1].offset = 0
          /\ buffers[Len(buffers)].offset + Padded(buffers[Len(buffers)].length) = offset
    /\ \A i \in 2..Len(buffers) :
          buffers[i].offset = buffers[i - 1].offset + Padded(buffers[i - 1].length)

\* two calls completed under compression: a record of a length off the word
\* boundary is followed by a record, and a zero-length absent-validity record
\* past the start of the body shares its offset with the record after it
C36_Witness ==
    /\ Len(columns) = 2
    /\ ~panicked
    /\ compression # "None"
    /\ offset > 0
    /\ \E i \in 2..Len(buffers) :
          /\ buffers[i - 1].length % 8 # 0
          /\ buffers[i].offset > buffers[i - 1].offset + buffers[i - 1].length
    /\ \E k \in AbsentValidityEvents :
          /\ log[k].off > 0
          /\ log[k].idx < Len(buffers)
          /\ buffers[log[k].idx].length = 0
          /\ buffers[log[k].idx + 1].offset = buffers[log[k].idx].offset
          /\ buffers[log[k].idx + 1].length > 0

(***************************************************************************)
(* Claims about the offsets of the list layers.                            *)
(***************************************************************************)
IsListLayer(nest) == nest.kind \in {"NestedOptional", "NestedValid"}

\* the offsets of the list layers of a NestedState are well formed
ListOffsetsOk(nested) ==
    \A d \in DOMAIN nested :
        IsListLayer(nested[d]) =>
            /\ d < Len(nested)
            /\ \A i \in 2..Len(nested[d].offsets) :
                  nested[d].offsets[i - 1] <= nested[d].offsets[i]
            /\ nested[d].offsets # <<>> => nested[d].offsets[1] = 0
            /\ \A i \in DOMAIN nested[d].offsets :
                  nested[d].offsets[i] <= Nested_len(nested[d + 1])
            /\ nested[d].kind = "NestedOptional" =>
                  Len(nested[d].validity) = Len(nested[d].offsets)

\* the NestedStates of a state: the queued ones, the returned ones, and the
\* ones the first call of extend_offsets2 went through, pair by pair
NestedStatesReached ==
    {nested_items[i] : i \in DOMAIN nested_items}
    \cup {returned[i].nested : i \in {j \in DOMAIN returned : returned[j].tag = "Some"}}
    \cup (IF FirstPagePulled THEN {Pushed(k) : k \in 0..Len(FirstChunkPairs)} ELSE {})

\* C37: in every NestedState reached, the offsets of each list layer
\* (NestedValid, NestedOptional) are non-decreasing, begin at 0, never exceed
\* the entry count of the next-deeper layer, and a NestedOptional layer holds
\* one validity bit per offset.
C37_ListOffsets == \A nested \in NestedStatesReached : ListOffsetsOk(nested)

\* a chunk of list<list<i32?>?> with a required outer list was returned: the
\* outer offsets 0, 2, 2 repeat a value (a row without an inner list), the
\* inner layer holds the offsets 0, 1, 2, 2 with one validity bit each
C37_Witness ==
    /\ init = ListOfList(FALSE)
    /\ returned # <<>>
    /\ returned[1].tag = "Some"
    /\ returned[1].nested[1].kind = "NestedValid"
    /\ returned[1].nested[1].offsets = <<0, 2, 2>>
    /\ returned[1].nested[2].kind = "NestedOptional"
    /\ returned[1].nested[2].offsets = <<0, 1, 2, 2>>
    /\ Len(returned[1].nested[2].validity) = 4
    /\ Nested_len(returned[1].nested[3]) = 3

\* a chunk of list<i32?>? that two pages filled was returned
C37_WitnessResumed ==
    /\ init = ListOfInt
    /\ Len(source) = 2
    /\ iter = <<>>
    /\ ErrorFree
    /\ returned # <<>>
    /\ returned[1].tag = "Some"
    /\ Len(returned[1].nested[1].offsets) > Len(RowStarts(FirstPage))
    /\ returned[1].nested[1].offsets[Len(returned[1].nested[1].offsets)] > 0
====
